---- MODULE Spec2Model ----
(***************************************************************************)
(* Model of the resume extraction pipeline of backend/                     *)
(* simple_resume_parser.py and of the upload route of                      *)
(* backend/routes/resume_simple.py.                                        *)
(*                                                                         *)
(* Texts are TLA+ strings; a character is a string of length 1.  Regular   *)
(* expressions of the source are written as syntax trees and run by a      *)
(* backtracking matcher with the priorities of Python's re module.         *)
(***************************************************************************)
EXTENDS Integers, Sequences, FiniteSets, TLC

(***************************************************************************)
(* Characters and Python str helpers                                       *)
(***************************************************************************)
UpperChars == {"A","B","C","D","E","F","G","H","I","J","K","L","M",
               "N","O","P","Q","R","S","T","U","V","W","X","Y","Z"}

LowerChars == {"a","b","c","d","e","f","g","h","i","j","k","l","m",
               "n","o","p","q","r","s","t","u","v","w","x","y","z"}

DigitChars == {"0","1","2","3","4","5","6","7","8","9"}

\* \s of the re module, restricted to the whitespace the model's texts use
SpaceChars == {" ", "\n", "\t"}

\* \w of the re module
WordChars == UpperChars \cup LowerChars \cup DigitChars \cup {"_"}

UpperSeq == "ABCDEFGHIJKLMNOPQRSTUVWXYZ"

LowerSeq == "abcdefghijklmnopqrstuvwxyz"

Ch(s, i) == SubSeq(s, i, i)

\* str.lower() / str.upper() of one character
LowerCh(c) ==
    IF c \in UpperChars
    THEN Ch(LowerSeq, CHOOSE k \in 1..26 : Ch(UpperSeq, k) = c)
    ELSE c

UpperCh(c) ==
    IF c \in LowerChars
    THEN Ch(UpperSeq, CHOOSE k \in 1..26 : Ch(LowerSeq, k) = c)
    ELSE c

RECURSIVE ConcatRange(_, _, _)
\* ''.join(parts[lo..hi]), by halving
ConcatRange(parts, lo, hi) ==
    IF lo > hi THEN ""
    ELSE IF lo = hi THEN parts[lo]
    ELSE LET mid == (lo + hi) \div 2
         IN  ConcatRange(parts, lo, mid) \o ConcatRange(parts, mid + 1, hi)

\* the sequence f as an explicit tuple: its elements are computed once
Tup(f) == <<>> \o f

\* ''.join(parts) for a sequence of strings
StrJoin(parts) ==
    LET ps == Tup(parts)
    IN  ConcatRange(ps, 1, Len(ps))

\* str.lower()
StrLower(s) == StrJoin([i \in 1..Len(s) |-> LowerCh(Ch(s, i))])

\* the Python expression  sub in s
StrContains(s, sub) ==
    \E i \in 1..(Len(s) - Len(sub) + 1) : SubSeq(s, i, i + Len(sub) - 1) = sub

\* str.startswith / str.endswith
StartsWith(s, p) == Len(s) >= Len(p) /\ SubSeq(s, 1, Len(p)) = p

EndsWith(s, p) == Len(s) >= Len(p) /\ SubSeq(s, Len(s) - Len(p) + 1, Len(s)) = p

\* str.strip()
StrStrip(s) ==
    LET keep == {i \in 1..Len(s) : Ch(s, i) \notin SpaceChars}
    IN  IF keep = {} THEN ""
        ELSE SubSeq(s, CHOOSE i \in keep : \A j \in keep : i <= j,
                       CHOOSE i \in keep : \A j \in keep : i >= j)

\* str.isalnum(): non-empty and every character a letter or a digit
IsAlnum(s) ==
    /\ Len(s) > 0
    /\ \A i \in 1..Len(s) : Ch(s, i) \in UpperChars \cup LowerChars \cup DigitChars

\* str.isalpha()
IsAlpha(s) ==
    /\ Len(s) > 0
    /\ \A i \in 1..Len(s) : Ch(s, i) \in UpperChars \cup LowerChars

\* str.replace(c, '') for a single character c
StrRemove(s, c) ==
    StrJoin([i \in 1..Len(s) |-> IF Ch(s, i) = c THEN "" ELSE Ch(s, i)])

(***************************************************************************)
(* Regular expressions: syntax trees                                       *)
(***************************************************************************)
Lit(s)     == [t |-> "lit", s |-> s]

Set(cs)    == [t |-> "set", cs |-> cs, neg |-> FALSE]

NotSet(cs) == [t |-> "set", cs |-> cs, neg |-> TRUE]

Dot        == [t |-> "any"]

Cat(xs)    == [t |-> "seq", xs |-> xs]

Alt(xs)    == [t |-> "alt", xs |-> xs]

\* x{lo,hi}; hi = -1 is "no upper limit"
Rep(x, lo, hi) == [t |-> "rep", x |-> x, lo |-> lo, hi |-> hi, lazy |-> FALSE]

LazyRep(x, lo, hi) == [t |-> "rep", x |-> x, lo |-> lo, hi |-> hi, lazy |-> TRUE]

Opt(x)     == Rep(x, 0, 1)

Star(x)    == Rep(x, 0, -1)

Plus(x)    == Rep(x, 1, -1)

\* capturing group number n
Grp(n, x)  == [t |-> "grp", n |-> n, x |-> x]

\* (?=x)
Look(x)    == [t |-> "look", x |-> x]

\* \b
WordB      == [t |-> "wb"]

\* \Z
EndZ       == [t |-> "eos"]

NoFlags    == [i |-> FALSE, s |-> FALSE]

\* re.IGNORECASE
FlagI      == [i |-> TRUE, s |-> FALSE]

\* re.IGNORECASE | re.MULTILINE | re.DOTALL (no pattern here uses ^ or $)
FlagIMS    == [i |-> TRUE, s |-> TRUE]

NoMatch    == [ok |-> FALSE]

NoCaps     == <<>>

(***************************************************************************)
(* The matcher.  Cands(s, fl, n, i, caps) is the sequence of all ways node *)
(* n can match s from position i, as records [e: position after the match, *)
(* c: captured groups], in the order in which Python's backtracking        *)
(* engine tries them: alternatives left to right, a greedy repetition      *)
(* longest first, a lazy one shortest first.  The first element is the     *)
(* match the engine reports.                                               *)
(***************************************************************************)
CharIn(c, cs, fl) ==
    \/ c \in cs
    \/ fl.i /\ (LowerCh(c) \in cs \/ UpperCh(c) \in cs)

LitAt(s, i, l, fl) ==
    /\ i + Len(l) - 1 <= Len(s)
    /\ IF fl.i
       THEN \A k \in 1..Len(l) : LowerCh(Ch(s, i + k - 1)) = LowerCh(Ch(l, k))
       ELSE SubSeq(s, i, i + Len(l) - 1) = l

IsWordAt(s, i) == i >= 1 /\ i <= Len(s) /\ Ch(s, i) \in WordChars

\* does the one-character node n accept the character at position j
OneChar(s, fl, n, j) ==
    /\ j <= Len(s)
    /\ CASE n.t = "set" -> CharIn(Ch(s, j), n.cs, fl) # n.neg
         [] n.t = "any" -> fl.s \/ Ch(s, j) # "\n"
         [] OTHER -> FALSE

\* the first k in 1..n with P(k), or 0
FirstIndex(n, P(_)) ==
    LET hits == {k \in 1..n : P(k)}
    IN  IF hits = {} THEN 0
        ELSE CHOOSE k \in hits : \A j \in hits : k <= j

RECURSIVE FlatRange(_, _, _)
\* concatenation of the sequences ss[lo..hi], by halving
FlatRange(ss, lo, hi) ==
    IF lo > hi THEN <<>>
    ELSE IF lo = hi THEN ss[lo]
    ELSE LET mid == (lo + hi) \div 2
         IN  FlatRange(ss, lo, mid) \o FlatRange(ss, mid + 1, hi)

Flat(ss) ==
    LET ts == Tup(ss)
    IN  FlatRange(ts, 1, Len(ts))

RECURSIVE Cands(_, _, _, _, _)
RECURSIVE CatCands(_, _, _, _, _, _)
RECURSIVE RepCands(_, _, _, _, _, _, _)

Cands(s, fl, n, i, caps) ==
    LET here == <<[e |-> i, c |-> caps]>>
    IN  CASE n.t = "lit" ->
               IF LitAt(s, i, n.s, fl)
               THEN <<[e |-> i + Len(n.s), c |-> caps]>> ELSE <<>>
          [] n.t \in {"set", "any"} ->
               IF OneChar(s, fl, n, i)
               THEN <<[e |-> i + 1, c |-> caps]>> ELSE <<>>
          [] n.t = "seq" ->
               IF Len(n.xs) = 0 THEN here
               ELSE CatCands(s, fl, n.xs, 1, Len(n.xs), here)
          [] n.t = "alt" ->
               Flat([k \in 1..Len(n.xs) |-> Cands(s, fl, n.xs[k], i, caps)])
          [] n.t = "rep" ->
               IF n.x.t \in {"set", "any"}
               THEN \* a repeated single character: the run length decides
                    LET lim == IF n.hi = -1 THEN Len(s) - i + 1 ELSE n.hi
                        Runs(kmax) ==
                            IF kmax < n.lo THEN <<>>
                            ELSE Tup([j \in 1..(kmax - n.lo + 1) |->
                                        [e |-> IF n.lazy THEN i + n.lo + j - 1
                                               ELSE i + kmax - j + 1,
                                         c |-> caps]])
                    IN  Runs(CHOOSE k \in 0..lim :
                               /\ (k = lim \/ ~OneChar(s, fl, n.x, i + k))
                               /\ \A j \in 0..(k - 1) :
                                     OneChar(s, fl, n.x, i + j))
               ELSE RepCands(s, fl, n.x, n.lo, n.hi, n.lazy, <<i, caps>>)
          [] n.t = "grp" ->
               LET inner == Cands(s, fl, n.x, i, caps)
               IN  Tup([k \in 1..Len(inner) |->
                          [e |-> inner[k].e,
                           c |-> [g \in (DOMAIN inner[k].c) \cup {n.n} |->
                                    IF g = n.n
                                    THEN SubSeq(s, i, inner[k].e - 1)
                                    ELSE inner[k].c[g]]]])
          [] n.t = "look" ->
               IF Len(Cands(s, fl, n.x, i, caps)) > 0 THEN here ELSE <<>>
          [] n.t = "wb" ->
               IF IsWordAt(s, i - 1) # IsWordAt(s, i) THEN here ELSE <<>>
          [] n.t = "eos" ->
               IF i = Len(s) + 1 THEN here ELSE <<>>

\* the candidates of xs[lo] ... xs[hi] in sequence, continuing each of the
\* candidates from, in their order; the sequence is halved
CatCands(s, fl, xs, lo, hi, from) ==
    IF Len(from) = 0 THEN <<>>
    ELSE IF lo = hi
    THEN IF Len(from) = 1 THEN Cands(s, fl, xs[lo], from[1].e, from[1].c)
         ELSE Flat([k \in 1..Len(from) |->
                      Cands(s, fl, xs[lo], from[k].e, from[k].c)])
    ELSE LET mid  == (lo + hi) \div 2
             left == CatCands(s, fl, xs, lo, mid, from)
         IN  CatCands(s, fl, xs, mid + 1, hi, left)

\* x{lo,hi} for a node x that is not a single character; at == <<i, caps>>
RepCands(s, fl, x, lo, hi, lazy, at) ==
    LET i    == at[1]
        caps == at[2]
        hi1  == IF hi = -1 THEN -1 ELSE hi - 1
        lo1  == IF lo > 0 THEN lo - 1 ELSE 0
        all  == Cands(s, fl, x, i, caps)
        \* an optional iteration that consumes nothing ends the repetition
        once == IF lo > 0 THEN all
                ELSE SelectSeq(all, LAMBDA r : r.e > i)
        more == IF Len(once) = 0 THEN <<>>
                ELSE IF Len(once) = 1
                THEN RepCands(s, fl, x, lo1, hi1, lazy,
                              <<once[1].e, once[1].c>>)
                ELSE Flat([k \in 1..Len(once) |->
                             RepCands(s, fl, x, lo1, hi1, lazy,
                                      <<once[k].e, once[k].c>>)])
        stop == IF lo = 0 THEN <<[e |-> i, c |-> caps]>> ELSE <<>>
    IN  IF hi = 0 THEN stop
        ELSE IF lazy THEN stop \o more
        ELSE more \o stop

\* match of re starting exactly at position i
MatchAt(re, s, fl, i) ==
    LET First(A) ==
            IF Len(A) = 0 THEN NoMatch
            ELSE [ok |-> TRUE, start |-> i, end |-> A[1].e, caps |-> A[1].c,
                  text |-> SubSeq(s, i, A[1].e - 1)]
    IN  First(Cands(s, fl, re, i, NoCaps))

\* the positions of s at which re has a match
MatchStarts(re, s, fl) ==
    {i \in 1..(Len(s) + 1) : Len(Cands(s, fl, re, i, NoCaps)) > 0}

\* the match at the leftmost of the positions starts that is at least from
MatchFrom(re, s, fl, starts, from) ==
    LET later == {i \in starts : i >= from}
    IN  IF later = {} THEN NoMatch
        ELSE MatchAt(re, s, fl, CHOOSE i \in later : \A j \in later : i <= j)

\* re.search(re, s, flags): the match at the leftmost position that has one
Search(re, s, fl) == MatchFrom(re, s, fl, MatchStarts(re, s, fl), 1)

RECURSIVE FindAllRange(_, _, _, _, _, _, _)
\* the successive non-overlapping matches that re.finditer, re.split and
\* re.sub work on, among those starting in lo..hi, when the scan reaches lo
\* with its next match due at position from or later: [ms, from], the matches
\* and where the scan stands after hi.  The range is halved.
FindAllRange(re, s, fl, starts, lo, hi, from) ==
    IF \A i \in starts : i < lo \/ i > hi \/ i < from
    THEN [ms |-> <<>>, from |-> from]
    ELSE IF lo = hi
    THEN LET One(m) ==
                 [ms |-> <<m>>,
                  from |-> IF m.end > m.start THEN m.end ELSE m.end + 1]
         IN  One(MatchAt(re, s, fl, lo))
    ELSE LET mid   == (lo + hi) \div 2
             left  == FindAllRange(re, s, fl, starts, lo, mid, from)
             right == FindAllRange(re, s, fl, starts, mid + 1, hi, left.from)
         IN  [ms |-> left.ms \o right.ms, from |-> right.from]

FindAll(re, s, fl) ==
    FindAllRange(re, s, fl, MatchStarts(re, s, fl), 1, Len(s) + 1, 1).ms

\* re.split(re, s) for a pattern without capturing groups
ReSplit(re, s, fl) ==
    LET Gaps(ms) ==
            Tup([k \in 1..(Len(ms) + 1) |->
                   SubSeq(s, IF k = 1 THEN 1 ELSE ms[k - 1].end,
                          IF k = Len(ms) + 1 THEN Len(s) ELSE ms[k].start - 1)])
    IN  Gaps(FindAll(re, s, fl))

\* re.sub(re, repl, s) for a literal replacement
ReSub(re, repl, s, fl) ==
    LET Joined(gap) ==
            StrJoin([k \in 1..(2 * Len(gap) - 1) |->
                       IF k % 2 = 1 THEN gap[(k + 1) \div 2] ELSE repl])
    IN  Joined(ReSplit(re, s, fl))

\* str.split(sep) for a one-character separator
StrSplit(s, sep) == ReSplit(Lit(sep), s, NoFlags)

\* str.split(): the maximal runs of non-whitespace characters
StrWords(s) ==
    SelectSeq(ReSplit(Plus(Set(SpaceChars)), s, NoFlags),
              LAMBDA p : Len(p) > 0)

\* seq[:n]
Take(seq, n) == SubSeq(seq, 1, IF Len(seq) < n THEN Len(seq) ELSE n)

\* Optional[...] values: None, or Some(v)
None == <<>>

Some(v) == <<v>>

\* the first element of a sequence of Optionals that is not None
FirstSomeOf(cands) ==
    LET k == FirstIndex(Len(cands), LAMBDA i : cands[i] # None)
    IN  IF k > 0 THEN cands[k] ELSE None

FirstSome(f) == FirstSomeOf(<<>> \o f)

\* the value of the first candidate that is present and passes P; "" if none
FirstOf(cands, P(_)) ==
    LET k == FirstIndex(Len(cands), LAMBDA i : cands[i] # None /\ P(cands[i]))
    IN  IF k > 0 THEN cands[k][1] ELSE ""

FirstThat(f, P(_)) == FirstOf(<<>> \o f, P)

(***************************************************************************)
(* SimpleResumeParser: text normalisation                                  *)
(***************************************************************************)
\* r'\s+'
WhitespaceRun == Plus(Set(SpaceChars))

\* r'[^\w\s@.,()\-+/:#]'
ProblemChar ==
    NotSet(WordChars \cup SpaceChars \cup
           {"@", ".", ",", "(", ")", "-", "+", "/", ":", "#"})

_clean_text(text) ==
    StrStrip(ReSub(ProblemChar, " ",
                   ReSub(WhitespaceRun, " ", text, NoFlags), NoFlags))

(***************************************************************************)
(* SimpleResumeParser._extract_skills                                      *)
(***************************************************************************)
S == Set(SpaceChars)

\* the lookahead that ends a skills section:
\* (?=\n\s*\n|\n[A-Z][a-z]+(?:\s+[A-Z][a-z]+)*\s*:|\Z)
SkillsSectionEnd ==
    Look(Alt(<<Cat(<<Lit("\n"), Star(S), Lit("\n")>>),
               Cat(<<Lit("\n"), Set(UpperChars), Plus(Set(LowerChars)),
                     Star(Cat(<<Plus(S), Set(UpperChars),
                                Plus(Set(LowerChars))>>)),
                     Star(S), Lit(":")>>),
               EndZ>>))

\* skills_patterns
skills_patterns ==
    << Cat(<<Opt(Cat(<<Lit("Technical"), Plus(S)>>)), Lit("Skills"),
             Star(Set({":"} \cup SpaceChars)), Opt(Lit("\n")),
             Grp(1, LazyRep(Dot, 0, -1)), SkillsSectionEnd>>),
       Cat(<<Lit("Technologies"),
             Star(Set({":"} \cup SpaceChars)), Opt(Lit("\n")),
             Grp(1, LazyRep(Dot, 0, -1)), SkillsSectionEnd>>) >>

\* r'[,•\n\|;·\-\s]{2,}' (the two bullet characters are outside the
\* model's alphabet)
SkillDelimiters == Rep(Set({",", "|", ";", "-"} \cup SpaceChars), 2, -1)

\* the test of the inner loop without 2 <= len(skill) <= 25
SkillTokenOKAnyLength(skill) ==
    IsAlnum(StrRemove(StrRemove(StrRemove(StrRemove(skill, " "), "."),
                                "+"), "#"))

\* 2 <= len(skill) <= 25 and skill.replace(' ', '').replace('.', '')
\*     .replace('+', '').replace('#', '').isalnum()
SkillTokenOK(skill) ==
    /\ 2 <= Len(skill) /\ Len(skill) <= 25
    /\ IsAlnum(StrRemove(StrRemove(StrRemove(StrRemove(skill, " "), "."),
                                   "+"), "#"))

\* the stripped items that pass the test of the inner loop
SkillTokens(skill_items) ==
    {sk \in {StrStrip(skill_items[k]) : k \in 1..Len(skill_items)} :
        SkillTokenOK(sk)}

\* the tokens the match m of a skills pattern adds to the set
SkillsOfMatch(m) ==
    IF ~m.ok THEN {}
    ELSE SkillTokens(ReSplit(SkillDelimiters, m.caps[1], NoFlags))

\* the tokens one skills pattern adds to the set
SectionSkills(text, pattern) == SkillsOfMatch(Search(pattern, text, FlagIMS))

tech_skills ==
    << "Python", "JavaScript", "Java", "C++", "C#", "TypeScript", "Go", "Rust",
       "React", "Angular", "Vue.js", "Node.js", "Django", "Flask", "Spring",
       "MongoDB", "PostgreSQL", "MySQL", "Redis", "AWS", "Azure", "Docker",
       "Kubernetes", "Git", "Linux", "REST API", "GraphQL", "Machine Learning",
       "TensorFlow", "PyTorch", "SQL", "HTML", "CSS", "Bootstrap", "Tailwind" >>

\* the set skills as it stands before the final list(skills)[:20]
SkillSet(text) ==
    LET text_lower == StrLower(text)
    IN  SectionSkills(text, skills_patterns[1])
          \cup SectionSkills(text, skills_patterns[2])
          \cup {tech_skills[k] : k \in {j \in 1..Len(tech_skills) :
                    StrContains(text_lower, StrLower(tech_skills[j]))}}

(***************************************************************************)
(* Iteration order of a Python set of str.  It follows the strings' hash   *)
(* values, which are salted per process (PYTHONHASHSEED is random unless   *)
(* set), so the order is a function of the set and of the process's seed.  *)
(***************************************************************************)
CodeSeq ==
    " #+-.,:;/@()_0123456789ABCDEFGHIJKLMNOPQRSTUVWXYZabcdefghijklmnopqrstuvwxyz"

CharCode(c) ==
    IF \E k \in 1..Len(CodeSeq) : Ch(CodeSeq, k) = c
    THEN CHOOSE k \in 1..Len(CodeSeq) : Ch(CodeSeq, k) = c
    ELSE 0

HashModulus == 1009

RECURSIVE StrHashFrom(_, _, _)
StrHashFrom(s, i, h) ==
    IF i > Len(s) THEN h
    ELSE StrHashFrom(s, i + 1, (h * 31 + CharCode(Ch(s, i))) % HashModulus)

\* hash(s) in a process whose hash seed is seed
StrHash(s, seed) == StrHashFrom(s, 1, seed)

\* a < b in the order of the character codes
StrLess(a, b) ==
    \E i \in 1..(Len(a) + 1) :
       /\ i <= Len(b)
       /\ SubSeq(a, 1, i - 1) = SubSeq(b, 1, i - 1)
       /\ (i = Len(a) + 1 \/ CharCode(Ch(a, i)) < CharCode(Ch(b, i)))

RECURSIVE SeqOfSet(_)
\* the elements of a set in some order
SeqOfSet(set) ==
    IF set = {} THEN <<>>
    ELSE LET a == CHOOSE x \in set : TRUE
         IN  <<a>> \o SeqOfSet(set \ {a})

\* list(set) in a process whose hash seed is seed: the elements by hash
\* value, equal hash values by the strings
ListOfSet(set, seed) ==
    LET xs == SeqOfSet(set)
        hs == Tup([k \in 1..Len(xs) |-> StrHash(xs[k], seed)])
        Before(j, k) ==
            \/ hs[j] < hs[k]
            \/ hs[j] = hs[k] /\ StrLess(xs[j], xs[k])
        rank == Tup([k \in 1..Len(xs) |->
                       Cardinality({j \in 1..Len(xs) : Before(j, k)}) + 1])
    IN  Tup([r \in 1..Len(xs) |->
               xs[CHOOSE k \in 1..Len(xs) : rank[k] = r]])

SkillsLimit == 20

\* list(skills)  -- the cap left out
SkillsUncapped(text, seed) == ListOfSet(SkillSet(text), seed)

_extract_skills(text, seed) ==
    Take(ListOfSet(SkillSet(text), seed), SkillsLimit)

(***************************************************************************)
(* SimpleResumeParser._parse_dates                                         *)
(***************************************************************************)
\* (?:Jan|Feb|Mar|Apr|May|Jun|Jul|Aug|Sep|Oct|Nov|Dec)[a-z]*\.?\s+\d{4}
MonthYear ==
    Cat(<<Alt(<<Lit("Jan"), Lit("Feb"), Lit("Mar"), Lit("Apr"), Lit("May"),
                Lit("Jun"), Lit("Jul"), Lit("Aug"), Lit("Sep"), Lit("Oct"),
                Lit("Nov"), Lit("Dec")>>),
          Star(Set(LowerChars)), Opt(Lit(".")), Plus(S),
          Rep(Set(DigitChars), 4, 4)>>)

\* \s*[-–—to]\s*  (the two long dashes are outside the model's alphabet)
RangeSep == Cat(<<Star(S), Set({"-", "t", "o"}), Star(S)>>)

date_patterns ==
    << Cat(<<Grp(1, MonthYear), RangeSep,
             Grp(2, Alt(<<MonthYear, Lit("present"), Lit("current")>>))>>),
       Cat(<<Grp(1, Rep(Set(DigitChars), 4, 4)), RangeSep,
             Grp(2, Alt(<<Rep(Set(DigitChars), 4, 4), Lit("present"),
                          Lit("current")>>))>>),
       Cat(<<Grp(1, Cat(<<Rep(Set(DigitChars), 1, 2), Lit("/"),
                          Rep(Set(DigitChars), 4, 4)>>)), RangeSep,
             Grp(2, Alt(<<Cat(<<Rep(Set(DigitChars), 1, 2), Lit("/"),
                                Rep(Set(DigitChars), 4, 4)>>),
                          Lit("present"), Lit("current")>>))>>) >>

\* the loop over the patterns without the replacement of 'present' and
\* 'current' by 'Present'
ParseDatesVerbatim(date_text, k) ==
    LET p == FirstIndex(Len(date_patterns),
                        LAMBDA j : j >= k /\ Search(date_patterns[j], date_text, FlagI).ok)
    IN  IF p = 0 THEN <<None, None>>
        ELSE <<Some(StrStrip(Search(date_patterns[p], date_text, FlagI).caps[1])),
               Some(StrStrip(Search(date_patterns[p], date_text, FlagI).caps[2]))>>

\* the result of the first pattern, from the k-th on, that matches
RECURSIVE ParseDatesFrom(_, _)
ParseDatesFrom(date_text, k) ==
    IF k > Len(date_patterns) THEN <<None, None>>
    ELSE LET Dates(m) ==
                 IF m.ok
                 THEN LET start_date == StrStrip(m.caps[1])
                          end_date   == StrStrip(m.caps[2])
                      IN  <<Some(start_date),
                            Some(IF StrLower(end_date) \in {"present", "current"}
                                 THEN "Present" ELSE end_date)>>
                 ELSE ParseDatesFrom(date_text, k + 1)
         IN  Dates(Search(date_patterns[k], date_text, FlagI))

\* returns <<start_date, end_date>>
_parse_dates(date_text) ==
    IF date_text = "" THEN <<None, None>>
    ELSE ParseDatesFrom(date_text, 1)

(***************************************************************************)
(* SimpleResumeParser._parse_job_block                                     *)
(***************************************************************************)
\* any(indicator in line.lower() for indicator in inds)
AnyIndicator(line, inds) == \E ind \in inds : StrContains(StrLower(line), ind)

CompanyIndicators == {"inc", "llc", "corp", "company", "technologies"}

TitleIndicators == {"engineer", "developer", "manager", "analyst", "director"}

\* r'\d{4}|present|current'
DateLine == Alt(<<Rep(Set(DigitChars), 4, 4), Lit("present"), Lit("current")>>)

\* r'[A-Z][a-z]+,\s*[A-Z]{2}'
CityState ==
    Cat(<<Set(UpperChars), Plus(Set(LowerChars)), Lit(","), Star(S),
          Rep(Set(UpperChars), 2, 2)>>)

\* [line.strip() for line in block.split('\n') if line.strip()]
BlockLines(block) ==
    LET Stripped(raw) == Tup([k \in 1..Len(raw) |-> StrStrip(raw[k])])
    IN  SelectSeq(Stripped(StrSplit(block, "\n")), LAMBDA l : Len(l) > 0)

\* one pass of the loop with the `and not company` ... guards left out: a
\* later line of the same kind replaces the earlier one
JobLineStepUnguarded(st, line) ==
    IF AnyIndicator(line, CompanyIndicators)
    THEN [st EXCEPT !.company = line]
    ELSE IF AnyIndicator(line, TitleIndicators)
    THEN [st EXCEPT !.title = line]
    ELSE IF Search(DateLine, line, FlagI).ok
    THEN [st EXCEPT !.dates = line]
    ELSE IF Search(CityState, line, NoFlags).ok
    THEN [st EXCEPT !.location = line]
    ELSE [st EXCEPT !.description = Append(@, line)]

\* one pass of the loop over lines[:4]
JobLineStep(st, line) ==
    IF AnyIndicator(line, CompanyIndicators) /\ st.company = ""
    THEN [st EXCEPT !.company = line]
    ELSE IF AnyIndicator(line, TitleIndicators) /\ st.title = ""
    THEN [st EXCEPT !.title = line]
    ELSE IF Search(DateLine, line, FlagI).ok /\ st.dates = ""
    THEN [st EXCEPT !.dates = line]
    ELSE IF Search(CityState, line, NoFlags).ok /\ st.location = ""
    THEN [st EXCEPT !.location = line]
    ELSE [st EXCEPT !.description = Append(@, line)]

RECURSIVE JobLinesFrom(_, _, _)
JobLinesFrom(st, lines, k) ==
    IF k > Len(lines) THEN st
    ELSE JobLinesFrom(JobLineStep(st, lines[k]), lines, k + 1)

\* '\n'.join(lines) for a non-empty sequence
JoinLines(lines) ==
    StrJoin([k \in 1..(2 * Len(lines) - 1) |->
               IF k % 2 = 1 THEN lines[(k + 1) \div 2] ELSE "\n"])

MinBlockLines == 2

HeaderLines == 4

DescriptionLimit == 3

\* the WorkExperience built without the loop over lines[4:]: the lines after
\* the first four are not added to the description
JobEntryHeaderOnly(lines, st, ds) ==
    IF st.company # "" \/ st.title # ""
    THEN Some([company |-> IF st.company # "" THEN st.company
                           ELSE "Unknown Company",
               title |-> IF st.title # "" THEN st.title ELSE "Unknown Position",
               location |-> IF st.location # "" THEN Some(st.location) ELSE None,
               start_date |-> ds[1],
               end_date |-> ds[2],
               description |-> IF Len(st.description) > 0
                               THEN Some(JoinLines(Take(st.description,
                                                        DescriptionLimit)))
                               ELSE None,
               duration |-> None])
    ELSE None

\* the WorkExperience built from what the loop found (st), the lines after
\* the first four and the parsed dates (ds); Optional[WorkExperience]
JobEntry(lines, st, ds) ==
    LET description == st.description
                         \o SubSeq(lines, HeaderLines + 1, Len(lines))
    IN  IF st.company # "" \/ st.title # ""
        THEN Some([company |-> IF st.company # "" THEN st.company
                               ELSE "Unknown Company",
                   title |-> IF st.title # "" THEN st.title
                             ELSE "Unknown Position",
                   location |-> IF st.location # "" THEN Some(st.location)
                                ELSE None,
                   start_date |-> ds[1],
                   end_date |-> ds[2],
                   description |-> IF Len(description) > 0
                                   THEN Some(JoinLines(Take(description,
                                                            DescriptionLimit)))
                                   ELSE None,
                   duration |-> None])
        ELSE None

\* _parse_job_block after the loop over lines[:4]
JobOfHeader(lines, st) == JobEntry(lines, st, _parse_dates(st.dates))

\* _parse_job_block without the test len(lines) < 2
JobOfLinesAnyLength(lines) ==
    JobOfHeader(lines,
                JobLinesFrom([company |-> "", title |-> "", dates |-> "",
                              location |-> "", description |-> <<>>],
                             Take(lines, HeaderLines), 1))

\* _parse_job_block on the non-empty stripped lines of the block
JobOfLines(lines) ==
    IF Len(lines) < MinBlockLines THEN None
    ELSE JobOfHeader(lines,
                     JobLinesFrom([company |-> "", title |-> "", dates |-> "",
                                   location |-> "", description |-> <<>>],
                                  Take(lines, HeaderLines), 1))

\* Optional[WorkExperience]
_parse_job_block(block) == JobOfLines(BlockLines(block))

(***************************************************************************)
(* SimpleResumeParser._extract_experience                                  *)
(***************************************************************************)
\* (?:Work\s+|Professional\s+)?Experience[:\s]*\n?(.*?)
\*    (?=\n\s*(?:Education|Skills|Projects)\s*:|\Z)
exp_pattern ==
    Cat(<<Opt(Alt(<<Cat(<<Lit("Work"), Plus(S)>>),
                    Cat(<<Lit("Professional"), Plus(S)>>)>>)),
          Lit("Experience"), Star(Set({":"} \cup SpaceChars)), Opt(Lit("\n")),
          Grp(1, LazyRep(Dot, 0, -1)),
          Look(Alt(<<Cat(<<Lit("\n"), Star(S),
                           Alt(<<Lit("Education"), Lit("Skills"),
                                 Lit("Projects")>>),
                           Star(S), Lit(":")>>),
                     EndZ>>))>>)

\* r'\n\s*\n'
BlankLine == Cat(<<Lit("\n"), Star(S), Lit("\n")>>)

MinBlockChars == 20

ExperienceLimit == 5

\* the loop over job_blocks: the entries of the blocks long enough
JobsOfBlocks(job_blocks) ==
    Flat([k \in 1..Len(job_blocks) |->
            IF Len(StrStrip(job_blocks[k])) < MinBlockChars
            THEN <<>>
            ELSE _parse_job_block(StrStrip(job_blocks[k]))])

\* the entries of the experience section the match m holds
JobsOfMatch(m) ==
    IF ~m.ok THEN <<>>
    ELSE JobsOfBlocks(ReSplit(BlankLine, StrStrip(m.caps[1]), NoFlags))

\* the list experiences as it stands before the final experiences[:5]
ParsedBlocks(text) == JobsOfMatch(Search(exp_pattern, text, FlagIMS))

\* experiences  -- the cap left out
ExperienceUncapped(text) == ParsedBlocks(text)

_extract_experience(text) == Take(ParsedBlocks(text), ExperienceLimit)

(***************************************************************************)
(* The spaCy model.  self.nlp(text) is an oracle of the model: a call      *)
(* either raises or returns a document whose entities are spans of the     *)
(* text it was given.  A document is                                       *)
(*   [raises: BOOLEAN, ents: sequence of [text, label_]].                  *)
(***************************************************************************)
NoDoc == [raises |-> FALSE, ents |-> <<>>]

\* doc.ents of self.nlp(prefix): the entities of the document that lie in
\* the prefix of the text the model is given
EntsWithin(doc, prefix) ==
    SelectSeq(doc.ents, LAMBDA ent : StrContains(prefix, ent.text))

(***************************************************************************)
(* SimpleResumeParser._extract_name / _is_valid_name                       *)
(***************************************************************************)
exclude_words ==
    {"university", "college", "institute", "engineer", "developer",
     "manager", "analyst", "consultant", "director", "resume"}

\* the tests of _is_valid_name on words = name.strip().split()
ValidNameWords(words) ==
    /\ Len(words) >= 2
    /\ Len(words) <= 4
    /\ \A k \in 1..Len(words) : IsAlpha(words[k]) /\ Len(words[k]) >= 2

_is_valid_name(name) ==
    /\ name # ""
    /\ Len(StrStrip(name)) >= 3
    /\ ValidNameWords(StrWords(StrStrip(name)))
    /\ ~\E word \in exclude_words : StrContains(StrLower(name), word)

ContactIndicators ==
    {"@", "phone", "email", "address", "linkedin", "github", "www", "http"}

NerTextLimit == 800

NameLinesLimit == 10

NameLineMaxLen == 60

\* ' '.join(words)
JoinWords(words) ==
    StrJoin([k \in 1..(2 * Len(words) - 1) |->
               IF k % 2 = 1 THEN words[(k + 1) \div 2] ELSE " "])

\* words = line.split() passes the tests of the pattern-based loop
NameWordsOK(words) ==
    /\ 2 <= Len(words) /\ Len(words) <= 4
    /\ \A k \in 1..Len(words) :
          Ch(words[k], 1) \in UpperChars /\ IsAlpha(words[k])
    /\ _is_valid_name(JoinWords(words))

\* the tests of the pattern-based loop without len(line) > 60
StrippedLineOKAnyLength(line) ==
    /\ line # ""
    /\ ~AnyIndicator(line, ContactIndicators)
    /\ NameWordsOK(StrWords(line))

\* the stripped line passes every test of the pattern-based loop
StrippedLineOK(line) ==
    /\ line # ""
    /\ Len(line) <= NameLineMaxLen
    /\ ~AnyIndicator(line, ContactIndicators)
    /\ NameWordsOK(StrWords(line))

NameLineOK(raw) == StrippedLineOK(StrStrip(raw))

\* the entity passes the tests of the loop over doc.ents
PersonOK(ent) ==
    /\ ent.label_ = "PERSON"
    /\ Len(StrWords(ent.text)) <= 4
    /\ _is_valid_name(StrStrip(ent.text))

\* the pattern-based loop returning '' when no line qualifies
NameOfLineNoSentinel(lines, l) ==
    IF l > 0 THEN JoinWords(StrWords(StrStrip(lines[l]))) ELSE ""

\* what the pattern-based loop returns when l is the first qualifying line
\* (0: none)
NameOfLine(lines, l) ==
    IF l > 0 THEN JoinWords(StrWords(StrStrip(lines[l])))
    ELSE "Unknown Name"

\* the pattern-based fallback over lines = text.split('\n')[:10]
NameByLine(lines) ==
    NameOfLine(lines, FirstIndex(Len(lines), LAMBDA k : NameLineOK(lines[k])))

\* the pattern-based loop consulted before the entities
NameByEntityLineFirst(text, ents, e) ==
    IF \E k \in 1..NameLinesLimit :
          k <= Len(StrSplit(text, "\n")) /\ NameLineOK(StrSplit(text, "\n")[k])
    THEN NameByLine(Take(StrSplit(text, "\n"), NameLinesLimit))
    ELSE IF e > 0 THEN StrStrip(ents[e].text)
    ELSE "Unknown Name"

\* ents: doc.ents, empty when self.nlp is unset or raised; e: the first
\* qualifying entity (0: none)
NameByEntity(text, ents, e) ==
    IF e > 0 THEN StrStrip(ents[e].text)
    ELSE NameByLine(Take(StrSplit(text, "\n"), NameLinesLimit))

NameOfEnts(text, ents) ==
    NameByEntity(text, ents,
                 FirstIndex(Len(ents), LAMBDA k : PersonOK(ents[k])))

\* nlp: is self.nlp set; doc: what the model finds in the whole text, of
\* which self.nlp(text[:800]) sees the first 800 characters
_extract_name(text, nlp, doc) ==
    NameOfEnts(text,
               IF nlp /\ ~doc.raises
               THEN EntsWithin(doc, Take(text, NerTextLimit))
               ELSE <<>>)

(***************************************************************************)
(* SimpleResumeParser._extract_email / _extract_phone                      *)
(***************************************************************************)
AlnumChars == UpperChars \cup LowerChars \cup DigitChars

\* r'\b[A-Za-z0-9._%+-]+@[A-Za-z0-9.-]+\.[A-Z|a-z]{2,}\b'
email_pattern ==
    Cat(<<WordB, Plus(Set(AlnumChars \cup {".", "_", "%", "+", "-"})),
          Lit("@"), Plus(Set(AlnumChars \cup {".", "-"})), Lit("."),
          Rep(Set(UpperChars \cup LowerChars \cup {"|"}), 2, -1), WordB>>)

MatchText(m) == IF m.ok THEN m.text ELSE ""

\* re.findall(pattern, text)[0] if there is a match, else ""
_extract_email(text) == MatchText(Search(email_pattern, text, NoFlags))

D == Set(DigitChars)

\* [-.\s]?
PhoneSep == Opt(Set({"-", "."} \cup SpaceChars))

phone_patterns ==
    << Cat(<<Lit("+"), Rep(D, 1, 3), PhoneSep, Opt(Lit("(")), Rep(D, 3, 3),
             Opt(Lit(")")), PhoneSep, Rep(D, 3, 3), PhoneSep, Rep(D, 4, 4)>>),
       Cat(<<Opt(Lit("(")), Rep(D, 3, 3), Opt(Lit(")")), PhoneSep,
             Rep(D, 3, 3), PhoneSep, Rep(D, 4, 4)>>),
       Cat(<<Rep(D, 3, 3), PhoneSep, Rep(D, 3, 3), PhoneSep, Rep(D, 4, 4)>>) >>

\* the patterns tried in the order plain, parenthesised, international
PhoneOfPatternReversed(text, p) ==
    IF \E k \in 1..Len(phone_patterns) :
          Search(phone_patterns[k], text, NoFlags).ok
    THEN Search(phone_patterns[
                    CHOOSE k \in 1..Len(phone_patterns) :
                        /\ Search(phone_patterns[k], text, NoFlags).ok
                        /\ \A j \in (k + 1)..Len(phone_patterns) :
                              ~Search(phone_patterns[j], text, NoFlags).ok],
                text, NoFlags).text
    ELSE ""

\* matches[0] of the p-th pattern (p = 0: no pattern matched)
PhoneOfPattern(text, p) ==
    IF p > 0 THEN Search(phone_patterns[p], text, NoFlags).text ELSE ""

_extract_phone(text) ==
    PhoneOfPattern(text,
                   FirstIndex(Len(phone_patterns),
                              LAMBDA k : Search(phone_patterns[k], text,
                                                NoFlags).ok))

(***************************************************************************)
(* SimpleResumeParser._extract_title                                       *)
(***************************************************************************)
title_patterns ==
    << \* (?:title|position|role):\s*(.+)
       Cat(<<Alt(<<Lit("title"), Lit("position"), Lit("role")>>), Lit(":"),
             Star(S), Grp(1, Plus(Dot))>>),
       \* \b(?:Senior|Lead|Principal|Junior)?\s*
       \*   (?:Software|Full[- ]?Stack|Frontend|Backend|Web|Mobile)?\s*
       \*   (?:Engineer|Developer|Architect|Manager|Director)\b
       Cat(<<WordB,
             Opt(Alt(<<Lit("Senior"), Lit("Lead"), Lit("Principal"),
                       Lit("Junior")>>)),
             Star(S),
             Opt(Alt(<<Lit("Software"),
                       Cat(<<Lit("Full"), Opt(Set({"-", " "})), Lit("Stack")>>),
                       Lit("Frontend"), Lit("Backend"), Lit("Web"),
                       Lit("Mobile")>>)),
             Star(S),
             Alt(<<Lit("Engineer"), Lit("Developer"), Lit("Architect"),
                   Lit("Manager"), Lit("Director")>>),
             WordB>>),
       \* \b(?:Product|Project|Engineering|Technical)\s*
       \*   (?:Manager|Director|Lead)\b
       Cat(<<WordB,
             Alt(<<Lit("Product"), Lit("Project"), Lit("Engineering"),
                   Lit("Technical")>>),
             Star(S),
             Alt(<<Lit("Manager"), Lit("Director"), Lit("Lead")>>),
             WordB>>) >>

TitleLinesLimit == 15

\* what the inner loop over title_patterns returns for one line:
\* 'title' in pattern holds for the first pattern only
TitleOfMatch(p, m) ==
    IF p = 1 THEN StrStrip(m.caps[1]) ELSE StrStrip(m.text)

\* what the p-th pattern makes the inner loop return for the line; None
\* when the pattern does not match
TitleOfPattern(line, p, m) == IF m.ok THEN Some(TitleOfMatch(p, m)) ELSE None

\* what the inner loop over title_patterns returns for one line; None when
\* it falls through
TitleOfLine(line) ==
    FirstSome([p \in 1..Len(title_patterns) |->
                 TitleOfPattern(line, p,
                                Search(title_patterns[p], line, FlagI))])

\* the outer loop, given what the first line that returns something returns
TitleOrEmpty(t) == IF t = None THEN "" ELSE t[1]

\* the loops nested the other way round: every line is tried against one
\* pattern before the next pattern is tried
TitleByPatternFirst(lines) ==
    TitleOrEmpty(FirstSome([n \in 1..(Len(title_patterns) * Len(lines)) |->
        TitleOfPattern(lines[((n - 1) % Len(lines)) + 1],
                       ((n - 1) \div Len(lines)) + 1,
                       Search(title_patterns[((n - 1) \div Len(lines)) + 1],
                              lines[((n - 1) % Len(lines)) + 1], FlagI))]))

\* the outer loop over lines = text.split('\n')[:15]
TitleByLine(lines) ==
    TitleOrEmpty(FirstSome([k \in 1..Len(lines) |-> TitleOfLine(lines[k])]))

_extract_title(text) == TitleByLine(Take(StrSplit(text, "\n"), TitleLinesLimit))

(***************************************************************************)
(* SimpleResumeParser._extract_summary                                     *)
(***************************************************************************)
\* [:\s]*\n?(.*?)(?=\n\s*[A-Z][a-z]+(?:\s+[A-Z][a-z]+)*\s*:|\n\s*\n|\Z)
SummaryBody ==
    <<Star(Set({":"} \cup SpaceChars)), Opt(Lit("\n")),
      Grp(1, LazyRep(Dot, 0, -1)),
      Look(Alt(<<Cat(<<Lit("\n"), Star(S), Set(UpperChars),
                       Plus(Set(LowerChars)),
                       Star(Cat(<<Plus(S), Set(UpperChars),
                                  Plus(Set(LowerChars))>>)),
                       Star(S), Lit(":")>>),
                 Cat(<<Lit("\n"), Star(S), Lit("\n")>>),
                 EndZ>>))>>

summary_patterns ==
    << Cat(<<Opt(Cat(<<Lit("Professional"), Plus(S)>>)), Lit("Summary")>>
           \o SummaryBody),
       Cat(<<Opt(Cat(<<Lit("Career"), Plus(S)>>)), Lit("Objective")>>
           \o SummaryBody),
       Cat(<<Lit("Profile")>> \o SummaryBody) >>

SummaryMinLen == 50

SummaryMaxLen == 500

\* match.group(1).strip() with every whitespace run replaced by one space;
\* None without a match
Collapsed(m) ==
    IF m.ok THEN Some(ReSub(WhitespaceRun, " ", StrStrip(m.caps[1]), NoFlags))
    ELSE None

\* the candidate of the k-th pattern; None if the pattern does not match
SummaryCandidate(text, k) ==
    Collapsed(Search(summary_patterns[k], text, FlagIMS))

\* the test on the length without its upper limit
SummaryInRangeNoCeiling(c) ==
    c # None /\ SummaryMinLen <= Len(c[1])

\* 50 <= len(summary) <= 500
SummaryInRange(c) ==
    c # None /\ SummaryMinLen <= Len(c[1]) /\ Len(c[1]) <= SummaryMaxLen

_extract_summary(text) ==
    FirstThat([k \in 1..Len(summary_patterns) |-> SummaryCandidate(text, k)],
              LAMBDA c : SummaryInRange(c))

(***************************************************************************)
(* SimpleResumeParser._extract_education                                   *)
(***************************************************************************)
\* [:\s]*\n?(.*?)(?=\n\s*(?:Experience|Skills|Projects)\s*:|\Z)
EducationBody ==
    <<Star(Set({":"} \cup SpaceChars)), Opt(Lit("\n")),
      Grp(1, LazyRep(Dot, 0, -1)),
      Look(Alt(<<Cat(<<Lit("\n"), Star(S),
                       Alt(<<Lit("Experience"), Lit("Skills"),
                             Lit("Projects")>>),
                       Star(S), Lit(":")>>),
                 EndZ>>))>>

education_patterns ==
    << Cat(<<Lit("Education")>> \o EducationBody),
       Cat(<<Lit("Academic"), Plus(S), Lit("Background")>> \o EducationBody) >>

EducationMinLen == 10

EducationLimit == 300

EducationCandidate(text, k) ==
    Collapsed(Search(education_patterns[k], text, FlagIMS))

_extract_education(text) ==
    Take(FirstThat([k \in 1..Len(education_patterns) |->
                      EducationCandidate(text, k)],
                   LAMBDA c : c # None /\ Len(c[1]) > EducationMinLen),
         EducationLimit)

(***************************************************************************)
(* SimpleResumeParser._extract_location / _is_valid_location               *)
(***************************************************************************)
_is_valid_location(location) ==
    /\ location # ""
    /\ Len(location) >= 3
    /\ Len(location) <= 50
    /\ ~\E c \in {"@", "http", "www"} : StrContains(location, c)

location_patterns ==
    << \* (?:Location|Address|Based in)[:\s]*([^\n]+)
       Cat(<<Alt(<<Lit("Location"), Lit("Address"), Lit("Based in")>>),
             Star(Set({":"} \cup SpaceChars)), Grp(1, Plus(NotSet({"\n"})))>>),
       \* ([A-Z][a-z]+,\s*[A-Z]{2})
       Grp(1, CityState),
       \* ([A-Z][a-z]+,\s*[A-Z][a-z]+)
       Grp(1, Cat(<<Set(UpperChars), Plus(Set(LowerChars)), Lit(","), Star(S),
                    Set(UpperChars), Plus(Set(LowerChars))>>)) >>

\* match.group(1).strip() of a location pattern; None without a match
PlaceOfMatch(m) == IF m.ok THEN Some(StrStrip(m.caps[1])) ELSE None

LocationCandidate(text, k) ==
    PlaceOfMatch(Search(location_patterns[k], text, NoFlags))

\* the entity passes the tests of the loop over doc.ents
PlaceOK(ent) ==
    /\ ent.label_ \in {"GPE", "LOC"}
    /\ _is_valid_location(StrStrip(ent.text))

LocationTextLimit == 1000

\* the loop over the patterns ending at the first pattern that matches: ''
\* when its candidate fails validation
LocationFirstCandidate(text, ents, e) ==
    IF e > 0 THEN StrStrip(ents[e].text)
    ELSE FirstThat([k \in 1..1 |->
                      FirstSomeOf([j \in 1..Len(location_patterns) |->
                                     LocationCandidate(text, j)])],
                   LAMBDA c : c # None /\ _is_valid_location(c[1]))

\* ents: doc.ents, empty when self.nlp is unset or raised; e: the first
\* qualifying entity (0: none)
LocationByEntity(text, ents, e) ==
    IF e > 0 THEN StrStrip(ents[e].text)
    ELSE FirstThat([k \in 1..Len(location_patterns) |->
                      LocationCandidate(text, k)],
                   LAMBDA c : c # None /\ _is_valid_location(c[1]))

LocationOfEnts(text, ents) ==
    LocationByEntity(text, ents,
                     FirstIndex(Len(ents), LAMBDA k : PlaceOK(ents[k])))

\* nlp: is self.nlp set; doc: what the model finds in the whole text, of
\* which self.nlp(text[:1000]) sees the first 1000 characters
_extract_location(text, nlp, doc) ==
    LocationOfEnts(text,
                   IF nlp /\ ~doc.raises
                   THEN EntsWithin(doc, Take(text, LocationTextLimit))
                   ELSE <<>>)

(***************************************************************************)
(* SimpleResumeParser._extract_linkedin_url / _extract_github_url          *)
(***************************************************************************)
\* [\w-]+
Handle == Plus(Set(WordChars \cup {"-"}))

\* https?://(?:www\.)?
Scheme == Cat(<<Lit("http"), Opt(Lit("s")), Lit("://"), Opt(Lit("www."))>>)

linkedin_patterns ==
    << Cat(<<Scheme, Lit("linkedin.com/in/"), Handle>>),
       Cat(<<Lit("linkedin.com/in/"), Handle>>) >>

github_patterns ==
    << Cat(<<Scheme, Lit("github.com/"), Handle>>),
       Cat(<<Lit("github.com/"), Handle>>) >>

\* the loop both URL extractors share; Optional[str]
\* url = match.group(0), prefixed when it does not start with 'http'
UrlOfMatch(m) ==
    IF ~m.ok THEN None
    ELSE IF ~StartsWith(m.text, "http") THEN Some("https://" \o m.text)
    ELSE Some(m.text)

ExtractUrl(text, patterns) ==
    FirstSome([k \in 1..Len(patterns) |->
                 UrlOfMatch(Search(patterns[k], text, FlagI))])

_extract_linkedin_url(text) == ExtractUrl(text, linkedin_patterns)

_extract_github_url(text) == ExtractUrl(text, github_patterns)

(***************************************************************************)
(* SimpleResumeParser._extract_years_experience                            *)
(***************************************************************************)
\* (\d+)\+?\s*years?
NYears == <<Grp(1, Plus(D)), Opt(Lit("+")), Star(S), Lit("year"), Opt(Lit("s"))>>

years_patterns ==
    << \* (\d+)\+?\s*years?\s*(?:of\s*)?experience
       Cat(NYears \o <<Star(S), Opt(Cat(<<Lit("of"), Star(S)>>)),
                       Lit("experience")>>),
       \* experience[:\s]*(\d+)\+?\s*years?
       Cat(<<Lit("experience"), Star(Set({":"} \cup SpaceChars))>> \o NYears),
       \* (\d+)\+?\s*years?\s*in\s*(?:software|development|engineering)
       Cat(NYears \o <<Star(S), Lit("in"), Star(S),
                       Alt(<<Lit("software"), Lit("development"),
                             Lit("engineering")>>)>>) >>

RECURSIVE IntOfDigits(_, _, _)
IntOfDigits(s, i, acc) ==
    IF i > Len(s) THEN acc
    ELSE IntOfDigits(s, i + 1,
                     10 * acc + (CHOOSE d \in 0..9 : Ch("0123456789", d + 1) = Ch(s, i)))

\* int(s) for a string of decimal digits
StrToInt(s) == IntOfDigits(s, 1, 0)

MaxYears == 50

\* the body of the loop without the test 0 <= years <= 50
YearsOfMatchAnyRange(m) ==
    IF m.ok THEN Some(StrToInt(m.caps[1])) ELSE None

\* Optional[int]
\* what the body of the loop returns for the match of one pattern; None
\* when the loop goes on to the next pattern
YearsOfMatch(m) ==
    IF m.ok /\ 0 <= StrToInt(m.caps[1]) /\ StrToInt(m.caps[1]) <= MaxYears
    THEN Some(StrToInt(m.caps[1]))
    ELSE None

_extract_years_experience(text) ==
    FirstSome([k \in 1..Len(years_patterns) |->
                 YearsOfMatch(Search(years_patterns[k], text, FlagI))])

(***************************************************************************)
(* SimpleResumeParser._parse_resume_text                                   *)
(***************************************************************************)
\* seed: the hash seed of the process; nlp: is self.nlp set; docs: what the
\* two calls of self.nlp do, [name |-> document, location |-> document]
\* the ParsedResumeData built from the cleaned text
ParsedResumeData(text, seed, nlp, docs) ==
    [name |-> _extract_name(text, nlp, docs.name),
     email |-> _extract_email(text),
     phone |-> _extract_phone(text),
     title |-> _extract_title(text),
     summary |-> _extract_summary(text),
     skills |-> _extract_skills(text, seed),
     experience |-> _extract_experience(text),
     education |-> _extract_education(text),
     location |-> _extract_location(text, nlp, docs.location),
     linkedin_url |-> _extract_linkedin_url(text),
     github_url |-> _extract_github_url(text),
     years_experience |-> _extract_years_experience(text)]

_parse_resume_text(raw, seed, nlp, docs) ==
    ParsedResumeData(_clean_text(raw), seed, nlp, docs)

(***************************************************************************)
(* Outcome of a call: a returned value or a raised exception, with the     *)
(* trail of the library calls and parser stages the call went through      *)
(***************************************************************************)
Returned(v, calls) == [raised |-> FALSE, value |-> v, calls |-> calls]

Raised(e, calls) == [raised |-> TRUE, error |-> e, calls |-> calls]

(***************************************************************************)
(* SimpleResumeParser.__init__                                             *)
(*                                                                         *)
(* The installed libraries are the environment of the process:             *)
(*   paddle     "missing" (the import fails, PaddleOCR = None),            *)
(*              "broken"  (the constructor PaddleOCR(...) raises), "ok"    *)
(*   tesseract  "missing" (the import fails, pytesseract = None),          *)
(*              "broken"  (get_tesseract_version() raises), "ok"           *)
(*   spacy      "missing", "no_model" (every spacy.load raises OSError),   *)
(*              "broken" (spacy.load raises something else), "ok"          *)
(***************************************************************************)
Environments ==
    [paddle : {"missing", "broken", "ok"},
     tesseract : {"missing", "broken", "ok"},
     spacy : {"missing", "no_model", "broken", "ok"}]

\* sets self.ocr (TRUE: an engine object) and self.use_tesseract
_initialize_ocr(e) ==
    LET ocr == e.paddle = "ok"
    IN  [ocr |-> ocr,
         use_tesseract |-> IF ~ocr /\ e.tesseract # "missing"
                           THEN e.tesseract = "ok"
                           ELSE FALSE]

\* sets self.nlp (TRUE: a loaded model)
_initialize_nlp(e) == [nlp |-> e.spacy = "ok"]

\* the attributes of the constructed parser
SimpleResumeParser(e) ==
    [ocr |-> _initialize_ocr(e).ocr,
     use_tesseract |-> _initialize_ocr(e).use_tesseract,
     nlp |-> _initialize_nlp(e).nlp]

(***************************************************************************)
(* SimpleResumeParser._extract_text_with_ocr                               *)
(*                                                                         *)
(* What the engines do with one image is the record scan:                  *)
(*   paddle  [raises, result]: np.array(image), self.ocr.ocr(img) or the   *)
(*           unpacking of a region raises; or result is returned: <<>>     *)
(*           (None or empty) or <<lines>>, lines a sequence of regions,    *)
(*           each None or Some([text, confidence]); confidence is in       *)
(*           hundredths                                                    *)
(*   tess    [raises, text]: pytesseract.image_to_string(image)            *)
(***************************************************************************)
\* confidence > 0.5, in hundredths
ConfidenceThreshold == 50

\* the filter keeping a region at the threshold: confidence >= 0.5
HighConfidenceAtLeast(lines) ==
    LET text_blocks ==
            SelectSeq(lines,
                      LAMBDA line : /\ line # None
                                    /\ line[1].confidence >= ConfidenceThreshold)
    IN  StrJoin([k \in 1..Len(text_blocks) |->
                   (IF k > 1 THEN " " ELSE "") \o text_blocks[k][1].text])

\* ' '.join of the texts of the regions whose confidence passes
HighConfidenceText(lines) ==
    LET text_blocks ==
            SelectSeq(lines,
                      LAMBDA line : /\ line # None
                                    /\ line[1].confidence > ConfidenceThreshold)
    IN  StrJoin([k \in 1..Len(text_blocks) |->
                   (IF k > 1 THEN " " ELSE "") \o text_blocks[k][1].text])

\* result and result[0]
PaddleHasRegions(scan) ==
    /\ ~scan.paddle.raises
    /\ Len(scan.paddle.result) > 0
    /\ Len(scan.paddle.result[1]) > 0

\* the pytesseract call stands outside any try
OcrTesseractUnguarded(self, scan) ==
    LET tried == IF self.ocr THEN <<"PaddleOCR.ocr">> ELSE <<>>
        legacy == tried \o <<"pytesseract.image_to_string">>
    IN  IF self.ocr /\ PaddleHasRegions(scan)
        THEN Returned(HighConfidenceText(scan.paddle.result[1]), tried)
        ELSE IF self.use_tesseract
        THEN IF scan.tess.raises THEN Raised("PyTesseract failed", legacy)
             ELSE Returned(scan.tess.text, legacy)
        ELSE Returned("", tried)

_extract_text_with_ocr(self, scan) ==
    LET tried == IF self.ocr THEN <<"PaddleOCR.ocr">> ELSE <<>>
        legacy == tried \o <<"pytesseract.image_to_string">>
    IN  IF self.ocr /\ PaddleHasRegions(scan)
        THEN Returned(HighConfidenceText(scan.paddle.result[1]), tried)
        ELSE IF self.use_tesseract
        THEN IF scan.tess.raises
             THEN \* logged; "No OCR engine available"
                  Returned("", legacy)
             ELSE Returned(scan.tess.text, legacy)
        ELSE \* "No OCR engine available"
             Returned("", tried)

(***************************************************************************)
(* SimpleResumeParser._extract_text_from_pdf                               *)
(*                                                                         *)
(* What the libraries do with the bytes of one PDF is the record pdf:      *)
(*   pages          what page.extract_text() returns, page by page         *)
(*   fail_at        0, or the page at which PyPDF2 raises (1 also stands   *)
(*                  for PdfReader(...) raising)                            *)
(*   render_raises  pdf2image.convert_from_bytes raises                    *)
(*   scans          what the engines do with each rendered page            *)
(***************************************************************************)
SubstantialTextLen == 100

\* the text the loop of Method 1 accumulates over the first n pages
DirectText(pages, n) ==
    StrJoin([k \in 1..n |->
               IF StrStrip(pages[k]) # "" THEN pages[k] \o "\n" ELSE ""])

\* the text Method 1 leaves behind: all pages, or those before the failure
PdfDirectText(pdf) ==
    DirectText(pdf.pages,
               IF pdf.fail_at = 0 THEN Len(pdf.pages) ELSE pdf.fail_at - 1)

\* the number of characters of s that are not whitespace
NonWhitespaceLen(s) ==
    Cardinality({i \in 1..Len(s) : Ch(s, i) \notin SpaceChars})

\* the cheap path with the threshold on the non-whitespace characters
PdfCheapPathNonWhitespace(pdf) ==
    /\ pdf.fail_at = 0
    /\ NonWhitespaceLen(PdfDirectText(pdf)) > SubstantialTextLen

\* Method 1 returns: nothing raised and len(text.strip()) > 100
PdfCheapPath(pdf) ==
    /\ pdf.fail_at = 0
    /\ Len(StrStrip(PdfDirectText(pdf))) > SubstantialTextLen

\* Method 2, with what the engines did to each rendered page
PdfOcrTier(self, pdf, text, direct) ==
    LET page_texts == Tup([k \in 1..Len(pdf.scans) |->
                             _extract_text_with_ocr(self, pdf.scans[k])])
        Fails(k) == page_texts[k].raised
        bad == FirstIndex(Len(page_texts), Fails)
        done == IF bad = 0 THEN Len(page_texts) ELSE bad
        calls == direct \o <<"pdf2image.convert_from_bytes">>
                   \o Flat([k \in 1..done |-> page_texts[k].calls])
        ocr_text == StrJoin([k \in 1..Len(page_texts) |->
                               page_texts[k].value \o "\n"])
    IN  IF bad > 0 THEN Returned(text, calls)
        ELSE IF StrStrip(ocr_text) # "" THEN Returned(ocr_text, calls)
        ELSE Returned(text, calls)

\* the except clause of Method 2 is missing
PdfRenderUnguarded(self, pdf) ==
    LET text == PdfDirectText(pdf)
        direct == <<"PyPDF2.PdfReader">>
    IN  IF PdfCheapPath(pdf) THEN Returned(text, direct)
        ELSE IF pdf.render_raises
        THEN Raised("PDF OCR extraction failed",
                    direct \o <<"pdf2image.convert_from_bytes">>)
        ELSE PdfOcrTier(self, pdf, text, direct)

_extract_text_from_pdf(self, pdf) ==
    LET text == PdfDirectText(pdf)
        direct == <<"PyPDF2.PdfReader">>
    IN  IF PdfCheapPath(pdf) THEN Returned(text, direct)
        ELSE IF pdf.render_raises
        THEN Returned(text, direct \o <<"pdf2image.convert_from_bytes">>)
        ELSE PdfOcrTier(self, pdf, text, direct)

(***************************************************************************)
(* SimpleResumeParser._extract_text_from_docx / _extract_text_from_image   *)
(*                                                                         *)
(*   docx   [raises, paragraphs, tables]: docx.Document(...) raises, or    *)
(*          the texts of the paragraphs and of the cells of each row of    *)
(*          each table                                                     *)
(*   image  [raises, scan]: Image.open / convert raises, or what the       *)
(*          engines do with the image                                      *)
(***************************************************************************)
\* the text of one table row: every cell followed by a space, then "\n"
RowText(row) == StrJoin([k \in 1..Len(row) |-> row[k] \o " "]) \o "\n"

_extract_text_from_docx(docx) ==
    IF docx.raises
    THEN \* logged and raised again
         Raised("DOCX extraction failed", <<"docx.Document">>)
    ELSE Returned(
           StrJoin([k \in 1..Len(docx.paragraphs) |->
                      docx.paragraphs[k] \o "\n"])
             \o StrJoin([t \in 1..Len(docx.tables) |->
                           StrJoin([r \in 1..Len(docx.tables[t]) |->
                                      RowText(docx.tables[t][r])])]),
           <<"docx.Document">>)

_extract_text_from_image(self, image) ==
    IF image.raises
    THEN \* logged and raised again
         Raised("Image OCR failed", <<"Image.open">>)
    ELSE LET r == _extract_text_with_ocr(self, image.scan)
         IN  IF r.raised THEN Raised(r.error, <<"Image.open">> \o r.calls)
             ELSE Returned(r.value, <<"Image.open">> \o r.calls)

(***************************************************************************)
(* SimpleResumeParser.parse_resume_file                                    *)
(*                                                                         *)
(* file_content is the record of what each library does with the bytes:    *)
(* [size, pdf, docx, image]; doc is what the spaCy model finds in the      *)
(* extracted text; seed is the hash seed of the process.                   *)
(***************************************************************************)
PdfSuffixes == {".pdf"}

DocxSuffixes == {".docx", ".doc"}

ImageSuffixes == {".png", ".jpg", ".jpeg", ".tiff", ".bmp"}

\* filename.lower().endswith(suffixes)
HasSuffix(filename, suffixes) ==
    \E suf \in suffixes : EndsWith(StrLower(filename), suf)

\* a dispatch whose last branch takes every other suffix for an image
FileKindDefaultImage(filename) ==
    IF HasSuffix(filename, PdfSuffixes) THEN "pdf"
    ELSE IF HasSuffix(filename, DocxSuffixes) THEN "docx"
    ELSE "image"

\* the branch the dispatch takes
FileKind(filename) ==
    IF HasSuffix(filename, PdfSuffixes) THEN "pdf"
    ELSE IF HasSuffix(filename, DocxSuffixes) THEN "docx"
    ELSE IF HasSuffix(filename, ImageSuffixes) THEN "image"
    ELSE "unsupported"

\* the branch of the dispatch: what the extractor of the kind returns
ExtractedText(self, file_content, kind) ==
    CASE kind = "pdf" -> _extract_text_from_pdf(self, file_content.pdf)
      [] kind = "docx" -> _extract_text_from_docx(file_content.docx)
      [] kind = "image" -> _extract_text_from_image(self, file_content.image)
      [] OTHER -> Raised("Unsupported file type", <<>>)

\* return self._parse_resume_text(text), after the extractor returned or
\* raised
ParsedText(self, seed, doc, text) ==
    IF text.raised THEN text
    ELSE Returned(_parse_resume_text(text.value, seed, self.nlp,
                                     [name |-> doc, location |-> doc]),
                  text.calls \o <<"_parse_resume_text">>)

parse_resume_file(self, seed, file_content, filename, doc) ==
    ParsedText(self, seed, doc,
               ExtractedText(self, file_content, FileKind(filename)))

(***************************************************************************)
(* routes/resume_simple.py                                                 *)
(***************************************************************************)
allowed_extensions ==
    {".pdf", ".docx", ".doc", ".png", ".jpg", ".jpeg", ".tiff", ".bmp"}

\* 10 * 1024 * 1024
MAX_FILE_SIZE == 10485760

\* Path(filename).suffix.lower(), for a file name without a directory part:
\* the name from its last dot on, unless that dot is its first or last
\* character
PathSuffix(filename) ==
    LET dots == {i \in 1..Len(filename) : Ch(filename, i) = "."}
        i == IF dots = {} THEN 0
             ELSE CHOOSE d \in dots : \A o \in dots : o <= d
    IN  IF 1 < i /\ i < Len(filename)
        THEN StrLower(SubSeq(filename, i, Len(filename)))
        ELSE ""

\* the copy of a parser WorkExperience into the API WorkExperience
ApiWorkExperience(exp) ==
    [company |-> exp.company,
     title |-> exp.title,
     location |-> exp.location,
     start_date |-> exp.start_date,
     end_date |-> exp.end_date,
     description |-> exp.description,
     duration |-> exp.duration]

\* ResumeData -> ParsedResumeData; the fields the parser does not know keep
\* their defaults
convert_simple_to_api_format(simple_data) ==
    [name |-> simple_data.name,
     email |-> simple_data.email,
     phone |-> simple_data.phone,
     title |-> simple_data.title,
     summary |-> simple_data.summary,
     skills |-> simple_data.skills,
     experience |-> Tup([k \in 1..Len(simple_data.experience) |->
                           ApiWorkExperience(simple_data.experience[k])]),
     education |-> simple_data.education,
     location |-> simple_data.location,
     linkedin_url |-> simple_data.linkedin_url,
     portfolio_url |-> None,
     github_url |-> simple_data.github_url,
     years_experience |-> simple_data.years_experience]

\* the document upload_resume builds for db.resumes (upload_timestamp, the
\* clock's reading, is left out)
ResumeDoc(filename, file, api_data) ==
    [filename |-> filename,
     file_size |-> file.size,
     parsed_data |->
        [name |-> api_data.name,
         email |-> api_data.email,
         phone |-> api_data.phone,
         title |-> api_data.title,
         summary |-> api_data.summary,
         skills |-> api_data.skills,
         experience |-> api_data.experience,
         education |-> api_data.education,
         location |-> api_data.location,
         linkedin_url |-> api_data.linkedin_url,
         github_url |-> api_data.github_url,
         years_experience |-> api_data.years_experience],
     processing_metadata |->
        [parser_version |-> "simplified_v1.0",
         file_type |-> PathSuffix(filename),
         extraction_method |-> "paddleocr_spacy"]]

\* raise HTTPException(status_code, detail)
HTTPException(status_code, detail) ==
    [status_code |-> status_code, detail |-> detail]

\* the checks of upload_resume before file.read(): None, or the exception
CheckUpload(available, filename) ==
    IF ~available
    THEN Some(HTTPException(503, "Resume parsing service is not available"))
    ELSE IF filename = ""
    THEN Some(HTTPException(400, "No file provided"))
    ELSE IF PathSuffix(filename) \notin allowed_extensions
    THEN Some(HTTPException(400, "Unsupported file type"))
    ELSE None

\* the size check admits the empty file
CheckContentAdmitsEmpty(file) ==
    IF file.size > MAX_FILE_SIZE
    THEN Some(HTTPException(400, "File size exceeds 10MB limit"))
    ELSE None

\* the checks of upload_resume after file.read(): None, or the exception
CheckContent(file) ==
    IF file.size > MAX_FILE_SIZE
    THEN Some(HTTPException(400, "File size exceeds 10MB limit"))
    ELSE IF file.size = 0
    THEN Some(HTTPException(400, "Empty file uploaded"))
    ELSE None

(***************************************************************************)
(* The inputs of the model                                                 *)
(***************************************************************************)
\* n characters no extractor reacts to
Fill(n) == StrJoin([k \in 1..n |-> "#"])

Blanks(n) == StrJoin([k \in 1..n |-> " "])

\* what the spaCy model does with a text it finds nothing in, or fails on
DocRaises == [raises |-> TRUE, ents |-> <<>>]

SampleResume ==
    "Jane Doe\nSenior Software Engineer\njane.doe@example.com\n"
      \o "(512) 555-0199\nAustin, TX\nSkills: Python, Docker\n"

SampleDoc ==
    [raises |-> FALSE,
     ents |-> <<[text |-> "Jane Doe", label_ |-> "PERSON"],
                [text |-> "Austin", label_ |-> "GPE"]>>]

\* what the engines can do with one image
PaddleOutcomes ==
    {[raises |-> TRUE, result |-> <<>>],
     [raises |-> FALSE, result |-> <<>>],
     [raises |-> FALSE, result |-> << <<>> >>],
     [raises |-> FALSE,
      result |-> << <<Some([text |-> "Jane Doe", confidence |-> 97]),
                      None,
                      Some([text |-> "~~", confidence |-> 50]),
                      Some([text |-> "jane@example.com", confidence |-> 51])>> >>],
     [raises |-> FALSE,
      result |-> << <<Some([text |-> "~~", confidence |-> 12])>> >>]}

TessOutcomes ==
    {[raises |-> TRUE, text |-> ""],
     [raises |-> FALSE, text |-> ""],
     [raises |-> FALSE, text |-> " \n"],
     [raises |-> FALSE, text |-> "Jane Doe\njane@example.com\n"]}

Scans == [paddle : PaddleOutcomes, tess : TessOutcomes]

\* a page both engines read, a page neither reads, a page both fail on
GoodScan ==
    [paddle |-> [raises |-> FALSE,
                 result |-> << <<Some([text |-> "Jane Doe",
                                       confidence |-> 97])>> >>],
     tess |-> [raises |-> FALSE, text |-> "Jane Doe\n"]]

BlankScan ==
    [paddle |-> [raises |-> FALSE, result |-> <<>>],
     tess |-> [raises |-> FALSE, text |-> " \n"]]

BadScan ==
    [paddle |-> [raises |-> TRUE, result |-> <<>>],
     tess |-> [raises |-> TRUE, text |-> ""]]

\* the page texts of the PDFs, around the threshold of Method 1
PdfPages ==
    {<<>>,
     <<"Jane Doe\n">>,
     <<Fill(SubstantialTextLen)>>,
     <<Fill(SubstantialTextLen + 1)>>,
     <<" " \o Fill(SubstantialTextLen) \o "\n">>,
     <<Fill(SubstantialTextLen \div 2), Fill(SubstantialTextLen \div 2)>>,
     <<Fill(10) \o Blanks(SubstantialTextLen) \o Fill(10)>>,
     <<"  ", Fill(SubstantialTextLen + 1), "\n">>}

PdfScans == {<<>>, <<GoodScan>>, <<BlankScan, BlankScan>>, <<BlankScan, GoodScan>>,
             <<BadScan>>}

Pdfs ==
    {pdf \in [pages : PdfPages, fail_at : 0..2, render_raises : BOOLEAN,
              scans : PdfScans] :
        /\ pdf.fail_at <= Len(pdf.pages) \/ pdf.fail_at = 1
        /\ pdf.render_raises => pdf.scans = <<>>}

Docxs ==
    {[raises |-> TRUE, paragraphs |-> <<>>, tables |-> <<>>],
     [raises |-> FALSE, paragraphs |-> <<>>, tables |-> <<>>],
     [raises |-> FALSE, paragraphs |-> <<"Jane Doe", "Engineer">>,
      tables |-> << << <<"Skills", "Python">>, <<"Email", "jane@example.com">> >> >>]}

Images ==
    {[raises |-> TRUE, scan |-> BadScan]}
      \cup {[raises |-> FALSE, scan |-> s] : s \in {GoodScan, BlankScan, BadScan}}

\* uploaded files: what each library does with the bytes
PdfFile(size, pages) ==
    [size |-> size,
     pdf |-> [pages |-> pages, fail_at |-> 0, render_raises |-> FALSE,
              scans |-> <<GoodScan>>],
     docx |-> [raises |-> TRUE, paragraphs |-> <<>>, tables |-> <<>>],
     image |-> [raises |-> TRUE, scan |-> BadScan]]

DocxFile ==
    [size |-> 4096,
     pdf |-> [pages |-> <<>>, fail_at |-> 1, render_raises |-> TRUE,
              scans |-> <<>>],
     docx |-> [raises |-> FALSE, paragraphs |-> <<"Jane Doe", "Engineer">>,
               tables |-> <<>>],
     image |-> [raises |-> TRUE, scan |-> BadScan]]

ImageFile ==
    [size |-> 4096,
     pdf |-> [pages |-> <<>>, fail_at |-> 1, render_raises |-> TRUE,
              scans |-> <<>>],
     docx |-> [raises |-> TRUE, paragraphs |-> <<>>, tables |-> <<>>],
     image |-> [raises |-> FALSE, scan |-> GoodScan]]

\* bytes no library can read, of the given size
JunkFile(size) ==
    [size |-> size,
     pdf |-> [pages |-> <<>>, fail_at |-> 1, render_raises |-> TRUE,
              scans |-> <<>>],
     docx |-> [raises |-> TRUE, paragraphs |-> <<>>, tables |-> <<>>],
     image |-> [raises |-> TRUE, scan |-> BadScan]]

Files ==
    {PdfFile(2048, <<"Jane Doe\n">>), PdfFile(2048, <<Fill(SubstantialTextLen + 1)>>),
     DocxFile, ImageFile, JunkFile(7)}

Filenames ==
    {"", "cv.pdf", "CV.PDF", "cv.docx", "old.doc", "scan.png", "photo.JPEG",
     "notes.txt", "cv.pdf.bak", "pdf", ".pdf"}

\* texts for the field extractors: k vocabulary skills in a skills section,
\* n job blocks in an experience section
MaxSkills == 21

MaxBlocks == 6

MaxSeed == 1

SkillsText(k) ==
    "Skills: "
      \o StrJoin([j \in 1..k |-> (IF j > 1 THEN ", " ELSE "") \o tech_skills[j]])
      \o "\n"

JobBlockText(k) ==
    "Software Engineer\nAcme Corp " \o Ch("123456789", k)
      \o "\nJan 2020 - Dec 2021"

ExperienceText(n) ==
    "Experience\n"
      \o StrJoin([k \in 1..n |-> (IF k > 1 THEN "\n\n" ELSE "") \o JobBlockText(k)])
      \o "\n"

\* the texts the worker processes extract from
Texts ==
    {"", SkillsText(2), SkillsText(MaxSkills), ExperienceText(1),
     ExperienceText(MaxBlocks), SampleResume}

\* an extracted text with what the spaCy model does with it
ParseInputs ==
    {[text |-> "", doc |-> NoDoc],
     [text |-> "", doc |-> DocRaises],
     [text |-> " \n", doc |-> NoDoc],
     [text |-> "Jane Doe\n", doc |-> DocRaises],
     [text |-> SampleResume, doc |-> SampleDoc]}

Seeds == 0..MaxSeed

Procs == {1, 2}

\* job blocks of four lines: company, title, 'Month YYYY - Present', city
JobCompanies == {"Tech Corp Inc", "Acme LLC", "Directors Company"}

JobTitles == {"Senior Engineer", "Principal Developer", "Data Analyst"}

JobMonths == {"January 2020", "Sep. 2019", "May 2021"}

JobCities == {"San Francisco, CA", "Cincinnati, OH"}

FourLineBlock(company, title, month, city) ==
    company \o "\n" \o title \o "\n" \o month \o " - Present\n" \o city

\* the blocks handed to _parse_job_block: the four-line blocks, and blocks
\* with lines missing, repeated or out of order
JobBlocks ==
    {FourLineBlock(c, t, m, l) :
        c \in JobCompanies, t \in JobTitles, m \in JobMonths, l \in JobCities}
      \cup {"Acme LLC",
            "Senior Engineer at Tech Corp Inc",
            "Built things\nDid stuff",
            "Remote work\nPresent day\nAustin, TX",
            "Directors Company\nEngineering Manager at Initech Inc\n2020\nBoston, MA\nLed team\nShipped\nMore\nEven more",
            "Data Analyst\nSenior Developer\nLead Manager\nChief Director\nAcme LLC",
            "Acme LLC\n\n  \n  Senior Engineer  \n",
            "current role in 2021\nAcme Corp\n2019 - 2020\nParis, France",
            "Austin, TX\nDenver, CO\nsince 2019\nuntil 2020\nDeveloper",
            "Senior Engineer\n2019 - 2021",
            "Austin, TX\nsummer job",
            "Acme LLC\nInitech Inc\nData Analyst\n03/2019 - current\nAustin, TX\nBuilt reports"}

\* a resume whose 'Work Experience' section holds two job blocks separated
\* by a blank line, as the sample of test_simple_parser.py does
TwoJobResume ==
    "John Smith\nSoftware Engineer\n\nWork Experience\n\n"
      \o "Tech Corp Inc\nSenior Software Engineer\nJanuary 2020 - Present\n"
      \o "San Francisco, CA\n\n"
      \o "StartupXYZ\nSoftware Developer\nJune 2018 - December 2019\n"

\* multi-line texts handed to _parse_resume_text, with what the spaCy model
\* finds in them
ResumeInputs ==
    {[text |-> TwoJobResume, doc |-> NoDoc],
     [text |-> "Jane Q. Public\nSoftware Engineer\n", doc |-> NoDoc]}

\* texts handed to _extract_name, with what the spaCy model finds in them
NameInputs ==
    {[text |-> "", doc |-> NoDoc],
     [text |-> "Jane Q. Public\nSoftware Engineer\n", doc |-> NoDoc],
     [text |-> "Jane Q. Public\nBoston, MA\n",
      doc |-> [raises |-> FALSE,
               ents |-> <<[text |-> "Jane Q. Public", label_ |-> "PERSON"]>>]],
     [text |-> "Resume of Dr John A B Smith\nJohn Smith\n Mary  Jones \nAcme Corp\n",
      doc |-> [raises |-> FALSE,
               ents |-> <<[text |-> "Acme Corp", label_ |-> "ORG"],
                          [text |-> "Dr John A B Smith", label_ |-> "PERSON"],
                          [text |-> "Mary  Jones ", label_ |-> "PERSON"],
                          [text |-> "John Smith", label_ |-> "PERSON"]>>]],
     [text |-> "John Smith\njane@example.com\n", doc |-> DocRaises],
     [text |-> "john smith\nJane Doe jane@example.com\nBob Engineer\nA Lee\n",
      doc |-> [raises |-> FALSE,
               ents |-> <<[text |-> "Bob Engineer", label_ |-> "PERSON"]>>]],
     [text |-> "\n\n\n\n\n\n\n\n\n\nLate Name\n",
      doc |-> [raises |-> FALSE,
               ents |-> <<[text |-> "Late Name", label_ |-> "GPE"]>>]],
     [text |-> Fill(NerTextLimit) \o "\nMary Jones\nJohn Smith\n",
      doc |-> [raises |-> FALSE,
               ents |-> <<[text |-> "John Smith", label_ |-> "PERSON"]>>]]}

\* texts handed to _extract_years_experience: up to one phrase of each of
\* the three phrasings, in the order of the patterns
YearsOfPhrases == {"", "5+ years of experience", "75 years of experience",
                   "50 Years Experience", "51 year of  experience"}
ExperiencePhrases == {"", "Experience: 12 years", "experience 99 years"}
YearsInPhrases == {"", "3 years in software", "60 years in engineering"}

YearsTexts ==
    {p1 \o ". " \o p2 \o ". " \o p3 :
        p1 \in YearsOfPhrases, p2 \in ExperiencePhrases, p3 \in YearsInPhrases}

\* a paragraph of n characters once its whitespace runs are collapsed, whose
\* first gap is gap blanks wide
Prose(n, gap) ==
    "Led" \o Blanks(gap)
          \o StrJoin([k \in 1..(n - 4) |->
                        IF k % 7 = 0 /\ k < n - 4 THEN " " ELSE "x"])

\* a labelled section; nothing for n = 0
Labelled(label, n, gap) ==
    IF n = 0 THEN "" ELSE label \o ": " \o Prose(n, gap) \o "\n\n"

SummaryLens == {49, 50, 500, 501}
\* the lengths of the Profile and Career Objective sections
OtherLens == {<<0, 0>>, <<0, 60>>, <<70, 30>>}

\* the sections in the order Profile, Summary, Career Objective
SummaryText(n, gap, other) ==
    "Jane Doe\n\n" \o Labelled("Profile", other[1], 1)
                   \o Labelled("Summary", n, gap)
                   \o Labelled("Career Objective", other[2], 1)

\* texts handed to _extract_summary
SummaryTexts ==
    {SummaryText(n, gap, other) :
        n \in SummaryLens, gap \in 1..2, other \in OtherLens}
    \cup {"Jane Doe\nEngineer\n", "Summary: short\n"}

\* items of a skills section: plain names, names with '.', '+', '#' and
\* inner blanks, items of 1 and of 26 characters, items with other
\* punctuation, items of punctuation only
SectionItems ==
    {"Python", "Terraform v1.5", "C#", "F#", "x", "R&D", "++", "# 1",
     "Site Reliability Engineering"}

\* texts handed to _extract_skills
SkillsTexts ==
    {"Skills: " \o a \o ", " \o b \o ", AWS\n\nExperience:\nUsed " \o b \o "\n" :
        a \in SectionItems, b \in SectionItems}
    \cup {"", SkillsText(2), "Skills: Python, React, AWS",
          "Worked with JavaScript, MySQL and rest apis.\n",
          "Technologies: Kafka;  Spark | Flink\nHadoop\n\nTechnical Skills:\nGo, Rust - Zig\nEducation: MIT\n",
          "Skills: Python,React,AWS\n",
          "SKILLS\n" \o Blanks(2) \o "Ada ,  ..  , ab. \n"}

\* what a text handed to _extract_phone holds: nothing, too few digits, a
\* plain, a parenthesised and two international-prefixed numbers
PhoneItems ==
    {"", "12345", "555-123-4567", "(555) 987-6543", "+1 415-555-0100",
     "+44 (207) 555 0199"}

PhoneTexts == {"Call " \o a \o ", or " \o b \o "." : a \in PhoneItems, b \in PhoneItems}

\* texts handed to _extract_name whose name stands behind blank lines, a
\* line of more than 60 characters or lines with a contact-info marker
LineNameInputs ==
    {[text |-> "\n  \nJane Doe\n", doc |-> NoDoc],
     [text |-> "\n\n\n\n\n\n\n\n\nLate Name\n", doc |-> NoDoc],
     [text |-> "\n\n\n\n\n\n\n\n\n\nLate Name\n", doc |-> NoDoc],
     [text |-> "a\nb\nc\nd\ne\nf\ng\nh\ni\nj\nLate Name\n", doc |-> NoDoc],
     [text |-> "Abcdefghijklmnopqrstuvwxyzabcde Abcdefghijklmnopqrstuvwxyzabcdef\nMary Jones\n",
      doc |-> NoDoc],
     [text |-> "   Abcdefghijklmnopqrstuvwxyzabcd Abcdefghijklmnopqrstuvwxyz   \nMary Jones\n",
      doc |-> NoDoc],
     [text |-> "Email Address\nGithub Www\nMary Http\nJohn Smith\n", doc |-> NoDoc]}

\* lines of a text handed to _extract_title: with a label, with a role name,
\* with both, with neither, with a label and nothing behind it
TitleLines ==
    {"Title: Staff Wizard", "Senior Software Engineer at Acme", "Product Manager",
     "Jane Doe", "Role:   ", "Engineering Lead, position: Chief of Staff "}

\* k lines without a title, then the lines a and b
TitleText(k, a, b) ==
    StrJoin([j \in 1..k |-> "Jane Doe\n"]) \o a \o "\n" \o b \o "\n"

TitleTexts ==
    {TitleText(k, a, b) :
        k \in {0, TitleLinesLimit - 1, TitleLinesLimit}, a \in TitleLines, b \in TitleLines}

\* an experience section: a prefix of blocks that give no entry (too short,
\* or long enough but without a company or title line), then n job blocks
DudBlock == "Built things all day\nDid stuff and more"

ShortBlock == "Acme LLC\nEngineer"

BlockPrefixes ==
    {<<>>, <<DudBlock>>, <<ShortBlock>>, <<DudBlock, ShortBlock>>,
     <<ShortBlock, DudBlock, DudBlock>>}

ExperienceOf(prefix, n) ==
    "Jane Doe\n\nWork Experience:\n"
      \o StrJoin([k \in 1..Len(prefix) |-> prefix[k] \o "\n\n"])
      \o StrJoin([k \in 1..n |-> (IF k > 1 THEN "\n \n" ELSE "") \o JobBlockText(k)])
      \o "\n\nEducation:\nMIT\n"

ExperienceTexts ==
    {ExperienceOf(prefix, n) : prefix \in BlockPrefixes, n \in {1, 4, 5, 6}}
    \cup {"Jane Doe\nEngineer\n"}

\* date lines handed to _parse_dates: a start, a separator, an end
DateStarts == {"Jan 2020", "September 2019", "2018", "03/2017"}

DateSeparators == {" - ", "-"}

DateEnds == DateStarts \cup {"Present", "current", "PRESENT"}

DateTexts ==
    {a \o sep \o b : a \in DateStarts, sep \in DateSeparators, b \in DateEnds}
    \cup {"", "ongoing", "Jan 2020 to Present", "2019 to 2020", "from 2019 - 2020 on"}

\* job blocks whose date line is missing, matches no date pattern, or
\* matches one
DateLineBlocks ==
    {"Senior Engineer\nAcme Corp", "Acme LLC\nData Analyst\n2019 to 2020",
     "Acme LLC\nData Analyst\ncurrent\nAustin, TX",
     "Acme LLC\nData Analyst\n2019-current\nAustin, TX"}

\* texts handed to _extract_location, with what the spaCy model finds in
\* them
LocationInputs ==
    {[text |-> "", doc |-> NoDoc],
     [text |-> "Location: jane@example.com\nLives in Austin, TX\n", doc |-> NoDoc],
     [text |-> "Address: " \o Fill(51) \o "\nOffice in Paris, France\n", doc |-> NoDoc],
     [text |-> "Address: " \o Fill(50) \o "\nOffice in Paris, France\n", doc |-> NoDoc],
     [text |-> "Visit www.x.org, in NY or in  Berlin \nBased in: Denver\n",
      doc |-> [raises |-> FALSE,
               ents |-> <<[text |-> "www.x.org", label_ |-> "GPE"],
                          [text |-> "NY", label_ |-> "LOC"],
                          [text |-> "Visit", label_ |-> "PERSON"],
                          [text |-> " Berlin ", label_ |-> "GPE"],
                          [text |-> "Denver", label_ |-> "GPE"]>>]],
     [text |-> "Based in Denver\nBoston, MA\n", doc |-> DocRaises],
     [text |-> "Jane Austin\n",
      doc |-> [raises |-> FALSE,
               ents |-> <<[text |-> "Austin", label_ |-> "PERSON"]>>]],
     [text |-> "Location: ab\n", doc |-> NoDoc],
     [text |-> "Location: http://maps.example\nMoved to Boston, MA\nLyon, France\n",
      doc |-> NoDoc],
     [text |-> Fill(LocationTextLimit) \o " Oslo",
      doc |-> [raises |-> FALSE,
               ents |-> <<[text |-> "Oslo", label_ |-> "GPE"]>>]]}

\* texts handed to the URL extractors
UrlTexts ==
    {"", "no profile here",
     "linkedin.com/in/jane-doe", "https://www.linkedin.com/in/jane_doe",
     "http://linkedin.com/in/jane", "HTTPS://linkedin.com/in/x",
     "Http://www.LinkedIn.com/in/Jane", "see m.linkedin.com/in/jane today",
     "github.com/jane", "https://github.com/jane-doe", "HTTP://GitHub.com/jane",
     "www.github.com/jane and linkedin.com/in/jane"}

\* texts handed to _clean_text
CleanTexts ==
    {"", "   ", "Jane Doe", "  Jane \t\n Doe  ", "a!b", "a ! b", "a !! b",
     "! Jane", "Jane !", "C++ / C#: (jane@example.com), 555-0100.",
     "R&D * QA\n\nSkills: Go; Rust"}

(***************************************************************************)
(* State                                                                   *)
(*   env        the libraries installed in the process                     *)
(*   hash_seed  the hash seed of the server process                        *)
(*   parser     the module-level parser object: None, or Some(self); while *)
(*              __init__ runs, self with the attributes set so far         *)
(*   router     has routes/resume_simple.py been imported: its router      *)
(*              exists and carries the handlers                            *)
(*   requests   the upload requests: where each handler stands, its        *)
(*              inputs, what parse_resume_file did, its response           *)
(*   db         the documents of db.resumes, in insertion order            *)
(*   call       the method call made on the parser, with its result        *)
(*   input      the text the worker processes extract from                 *)
(*   procs      the worker processes: hash seed and the call made          *)
(***************************************************************************)
VARIABLES env, hash_seed, parser, router, requests, db, call, input, procs

vars == <<env, hash_seed, parser, router, requests, db, call, input, procs>>

NoCall == [fn |-> "none"]

NoInput == ""

(***************************************************************************)
(* The upload route: the server process serving MaxRequests requests.      *)
(* A handler runs from one await to the next without interleaving.         *)
(***************************************************************************)
MaxRequests == 2

RequestIds == 1..MaxRequests

IdleRequest ==
    [pc |-> "idle", filename |-> "", file |-> None, parsed |-> None,
     parse_calls |-> 0, inserts |-> 0, response |-> None]

\* the environments of the server: every OCR state, spaCy absent or loaded
ServerEnvs ==
    {e \in Environments : e.spacy \in {"missing", "ok"}
                          /\ e.tesseract \in {"missing", "ok"}
                          /\ e.paddle \in {"missing", "ok"}}

\* the uploads the clients send
Uploads ==
    {<<"", PdfFile(2048, <<"Jane Doe\n">>)>>,
     <<"notes.txt", PdfFile(2048, <<"Jane Doe\n">>)>>,
     <<"cv.pdf", JunkFile(0)>>,
     <<"cv.pdf", PdfFile(MAX_FILE_SIZE + 1, <<"Jane Doe\n">>)>>,
     <<"cv.pdf", PdfFile(MAX_FILE_SIZE, <<"Jane Doe\n">>)>>,
     <<"CV.PDF", PdfFile(2048, <<"Jane Doe\n">>)>>,
     <<"cv.docx", DocxFile>>,
     <<"old.doc", JunkFile(7)>>,
     <<"scan.png", JunkFile(7)>>}

\* the server process as the import of routes/resume_simple.py begins
RouteInit ==
    /\ env \in ServerEnvs
    /\ hash_seed = 0
    /\ parser = None
    /\ router = FALSE
    /\ requests = [id \in RequestIds |-> IdleRequest]
    /\ db = <<>>
    /\ call = NoCall
    /\ input = NoInput
    /\ procs = <<>>

ParserAttributes == {"ocr", "use_tesseract", "nlp"}

\* the import of simple_resume_parser raises ImportError: PARSER_AVAILABLE =
\* False, parser = None, and the module goes on to create its router
ImportFails ==
    /\ ~router
    /\ parser = None
    /\ router' = TRUE
    /\ UNCHANGED <<env, hash_seed, parser, requests, db, call, input, procs>>

\* parser = SimpleResumeParser(): __init__ calls self._initialize_ocr()
InitializeOcr ==
    /\ ~router
    /\ parser = None
    /\ parser' = Some(_initialize_ocr(env))
    /\ UNCHANGED <<env, hash_seed, router, requests, db, call, input, procs>>

\* __init__ calls self._initialize_nlp()
InitializeNlp ==
    /\ ~router
    /\ parser # None
    /\ "nlp" \notin DOMAIN parser[1]
    /\ parser' = Some(parser[1] @@ _initialize_nlp(env))
    /\ UNCHANGED <<env, hash_seed, router, requests, db, call, input, procs>>

\* __init__ has returned; router = APIRouter() and the handlers are defined
CreateRouter ==
    /\ ~router
    /\ parser # None
    /\ DOMAIN parser[1] = ParserAttributes
    /\ router' = TRUE
    /\ UNCHANGED <<env, hash_seed, parser, requests, db, call, input, procs>>

\* upload_resume up to `await file.read()`, served although the module has
\* not been imported to its end
UploadBeginDuringImport(id, filename, file) ==
    /\ requests[id].pc = "idle"
    /\ requests' = [requests EXCEPT ![id] =
          [@ EXCEPT !.filename = filename,
                    !.file = Some(file),
                    !.pc = IF CheckUpload(parser # None, filename) = None
                           THEN "reading" ELSE "done",
                    !.response = CheckUpload(parser # None, filename)]]
    /\ UNCHANGED <<env, hash_seed, parser, router, db, call, input, procs>>

\* upload_resume up to `await file.read()`
UploadBegin(id, filename, file) ==
    /\ router
    /\ requests[id].pc = "idle"
    /\ LET err == CheckUpload(parser # None, filename)
       IN  requests' = [requests EXCEPT ![id] =
              [@ EXCEPT !.filename = filename,
                        !.file = Some(file),
                        !.pc = IF err = None THEN "reading" ELSE "done",
                        !.response = err]]
    /\ UNCHANGED <<env, hash_seed, parser, db, call, input, procs, router>>

\* the request r after the size checks (err) and parser.parse_resume_file
\* (parsed)
Handled(r, err, parsed) ==
    IF err # None
    THEN [r EXCEPT !.pc = "done", !.response = err]
    ELSE IF parsed.raised
    THEN [r EXCEPT !.pc = "done",
                   !.parsed = Some(parsed),
                   !.parse_calls = @ + 1,
                   !.response = Some(HTTPException(500,
                       "Failed to process resume: " \o parsed.error))]
    ELSE [r EXCEPT !.pc = "inserting",
                   !.parsed = Some(parsed),
                   !.parse_calls = @ + 1]

\* the handler running self._initialize_nlp() again before it parses, in a
\* process that can no longer load the model
UploadParseReinitialising(id) ==
    /\ requests[id].pc = "reading"
    /\ parser' = Some([parser[1] EXCEPT !.nlp = FALSE])
    /\ requests' = [requests EXCEPT ![id] =
          Handled(requests[id], CheckContent(requests[id].file[1]),
                  parse_resume_file(parser'[1], hash_seed, requests[id].file[1],
                                    requests[id].filename, NoDoc))]
    /\ UNCHANGED <<env, hash_seed, db, call, input, procs, router>>

\* upload_resume from the return of file.read() up to `await insert_one`
UploadParse(id) ==
    /\ requests[id].pc = "reading"
    /\ requests' = [requests EXCEPT ![id] =
          Handled(requests[id], CheckContent(requests[id].file[1]),
                  parse_resume_file(parser[1], hash_seed, requests[id].file[1],
                                    requests[id].filename, NoDoc))]
    /\ UNCHANGED <<env, hash_seed, parser, db, call, input, procs, router>>

\* upload_resume from the return of insert_one (or its exception) to the end
UploadStore(id, stored) ==
    /\ requests[id].pc = "inserting"
    /\ LET r == requests[id]
           api_data == convert_simple_to_api_format(r.parsed[1].value)
       IN  IF stored
           THEN /\ db' = Append(db, ResumeDoc(r.filename, r.file[1], api_data))
                /\ requests' = [requests EXCEPT ![id] =
                      [@ EXCEPT !.pc = "done",
                                !.inserts = @ + 1,
                                !.response = Some([status_code |-> 200,
                                                   resume_id |-> Len(db) + 1,
                                                   parsed_data |-> api_data])]]
           ELSE /\ db' = db
                /\ requests' = [requests EXCEPT ![id] =
                      [@ EXCEPT !.pc = "done",
                                !.response = Some(HTTPException(500,
                                    "Failed to process resume: insert failed"))]]
    /\ UNCHANGED <<env, hash_seed, parser, call, input, procs, router>>

Next ==
    \/ ImportFails
    \/ InitializeOcr
    \/ InitializeNlp
    \/ CreateRouter
    \/ \E id \in RequestIds : \E u \in Uploads : UploadBegin(id, u[1], u[2])
    \/ \E id \in RequestIds : UploadParse(id)
    \/ \E id \in RequestIds : \E stored \in BOOLEAN : UploadStore(id, stored)

Spec == RouteInit /\ [][Next]_vars

(***************************************************************************)
(* Direct calls of the parser's methods: the parser is constructed, then   *)
(* one method is called on it and returns or raises.                       *)
(***************************************************************************)
ParserInit ==
    /\ env \in Environments
    /\ hash_seed = 0
    /\ parser = None
    /\ requests = <<>>
    /\ db = <<>>
    /\ call = NoCall
    /\ input = NoInput
    /\ procs = <<>>
    /\ router = FALSE

Ready == parser # None /\ call = NoCall

\* parser = SimpleResumeParser()
Construct ==
    /\ parser = None
    /\ parser' = Some(SimpleResumeParser(env))
    /\ UNCHANGED <<env, hash_seed, requests, db, call, input, procs, router>>

CallOcr(scan) ==
    /\ Ready
    /\ call' = [fn |-> "_extract_text_with_ocr", arg |-> scan,
                ret |-> _extract_text_with_ocr(parser[1], scan)]
    /\ UNCHANGED <<env, hash_seed, parser, requests, db, input, procs, router>>

CallPdf(pdf) ==
    /\ Ready
    /\ call' = [fn |-> "_extract_text_from_pdf", arg |-> pdf,
                ret |-> _extract_text_from_pdf(parser[1], pdf)]
    /\ UNCHANGED <<env, hash_seed, parser, requests, db, input, procs, router>>

CallDocx(docx) ==
    /\ Ready
    /\ call' = [fn |-> "_extract_text_from_docx", arg |-> docx,
                ret |-> _extract_text_from_docx(docx)]
    /\ UNCHANGED <<env, hash_seed, parser, requests, db, input, procs, router>>

CallImage(image) ==
    /\ Ready
    /\ call' = [fn |-> "_extract_text_from_image", arg |-> image,
                ret |-> _extract_text_from_image(parser[1], image)]
    /\ UNCHANGED <<env, hash_seed, parser, requests, db, input, procs, router>>

CallParseText(in) ==
    /\ Ready
    /\ call' = [fn |-> "_parse_resume_text", arg |-> in,
                ret |-> Returned(_parse_resume_text(in.text, hash_seed,
                                                    parser[1].nlp,
                                                    [name |-> in.doc,
                                                     location |-> in.doc]),
                                 <<>>)]
    /\ UNCHANGED <<env, hash_seed, parser, requests, db, input, procs, router>>

CallParseFile(filename, file) ==
    /\ Ready
    /\ call' = [fn |-> "parse_resume_file",
                arg |-> [filename |-> filename, file_content |-> file],
                ret |-> parse_resume_file(parser[1], hash_seed, file, filename,
                                          NoDoc)]
    /\ UNCHANGED <<env, hash_seed, parser, requests, db, input, procs, router>>

ParserNext ==
    \/ Construct
    \/ \E scan \in Scans : CallOcr(scan)
    \/ \E pdf \in Pdfs : CallPdf(pdf)
    \/ \E docx \in Docxs : CallDocx(docx)
    \/ \E image \in Images : CallImage(image)
    \/ \E in \in ParseInputs : CallParseText(in)
    \/ \E filename \in Filenames : \E file \in Files :
          CallParseFile(filename, file)

ParserSpec == ParserInit /\ [][ParserNext]_vars

(***************************************************************************)
(* The field extractors in two worker processes: both hold the same text,  *)
(* each has the hash seed it was started with and calls one extractor.     *)
(***************************************************************************)
ExtractInit ==
    /\ env = [paddle |-> "missing", tesseract |-> "missing",
              spacy |-> "missing"]
    /\ hash_seed = 0
    /\ parser = Some(SimpleResumeParser(env))
    /\ requests = <<>>
    /\ db = <<>>
    /\ call = NoCall
    /\ input \in Texts
    /\ procs \in [Procs -> [seed : Seeds, out : {None}]]
    /\ router = FALSE

Returns(p, fn, ret) ==
    /\ procs[p].out = None
    /\ procs' = [procs EXCEPT ![p].out = Some([fn |-> fn, ret |-> ret])]
    /\ UNCHANGED <<env, hash_seed, parser, requests, db, call, input, router>>

ExtractSkills(p) ==
    Returns(p, "_extract_skills", _extract_skills(input, procs[p].seed))

ExtractExperience(p) ==
    Returns(p, "_extract_experience", _extract_experience(input))

ExtractNext ==
    \/ \E p \in Procs : ExtractSkills(p)
    \/ \E p \in Procs : ExtractExperience(p)

ExtractSpec == ExtractInit /\ [][ExtractNext]_vars

(***************************************************************************)
(* Properties of parse_resume_file and the text extractors (ParserSpec)    *)
(***************************************************************************)
SupportedSuffixes == PdfSuffixes \cup DocxSuffixes \cup ImageSuffixes

\* the record parse_resume_file returned has every field of ResumeData
CompleteRecord(r) ==
    DOMAIN r = {"name", "email", "phone", "title", "summary", "skills",
                "experience", "education", "location", "linkedin_url",
                "github_url", "years_experience"}

\* C1: parse_resume_file, called with a file name that has a supported
\* suffix and with non-empty bytes, never raises, whatever the libraries do
\* with the bytes, and returns a complete record.
SupportedFileNeverRaises ==
    (/\ call.fn = "parse_resume_file"
     /\ HasSuffix(call.arg.filename, SupportedSuffixes)
     /\ call.arg.file_content.size > 0)
        => /\ ~call.ret.raised
           /\ CompleteRecord(call.ret.value)

\* C2: for a file name whose lower-cased form ends with none of the
\* supported suffixes parse_resume_file raises the unsupported-file-type
\* error, and no decoder, OCR engine or extractor has been called.
UnsupportedSuffixRaisesFirst ==
    (/\ call.fn = "parse_resume_file"
     /\ ~HasSuffix(call.arg.filename, SupportedSuffixes))
        => /\ call.ret.raised
           /\ call.ret.error = "Unsupported file type"
           /\ call.ret.calls = <<>>

UnsupportedSuffixSeen ==
    /\ call.fn = "parse_resume_file"
    /\ call.arg.filename = "notes.txt"
    /\ call.arg.file_content = ImageFile
    /\ call.ret.raised

\* C3: in _extract_text_with_ocr, whenever PaddleOCR is unavailable or
\* raises during recognition and pytesseract is installed and working, the
\* result is what pytesseract returns for the image.
LegacyEngineTakesOver ==
    (/\ call.fn = "_extract_text_with_ocr"
     /\ ~parser[1].ocr \/ call.arg.paddle.raises
     /\ env.tesseract = "ok"
     /\ ~call.arg.tess.raises)
        => /\ ~call.ret.raised
           /\ call.ret.value = call.arg.tess.text

\* no engine of the parser produces text for the scan
NoEngineText(self, scan) ==
    /\ ~(self.ocr /\ PaddleHasRegions(scan))
    /\ ~(self.use_tesseract /\ ~scan.tess.raises)

\* C4: _extract_text_with_ocr never raises, whatever engines are installed
\* and whichever of them fail, and it returns the empty string when no
\* engine produces text.
OcrNeverRaises ==
    call.fn = "_extract_text_with_ocr"
        => /\ ~call.ret.raised
           /\ NoEngineText(parser[1], call.arg) => call.ret.value = ""

OcrBothEnginesFail ==
    /\ call.fn = "_extract_text_with_ocr"
    /\ parser[1].use_tesseract
    /\ call.arg.paddle.raises
    /\ call.arg.tess.raises
    /\ call.ret = Returned("", <<"pytesseract.image_to_string">>)

\* the text Method 2 collects from the rendered pages
PdfOcrText(self, pdf) ==
    StrJoin([k \in 1..Len(pdf.scans) |->
               _extract_text_with_ocr(self, pdf.scans[k]).value \o "\n"])

\* the call of _extract_text_from_pdf returned after Method 1
TookCheapPath == call.ret.calls = <<"PyPDF2.PdfReader">>

\* C7 as stated: the directly extracted text is returned at once, without
\* rendering pages, exactly when it holds more than 100 non-whitespace
\* characters.
CheapPathIffNonWhitespace ==
    (call.fn = "_extract_text_from_pdf" /\ call.arg.fail_at = 0)
        => (TookCheapPath
              <=> NonWhitespaceLen(PdfDirectText(call.arg)) > SubstantialTextLen)

\* C7 amended: the directly extracted text is returned at once, without
\* rendering pages, exactly when its length after stripping leading and
\* trailing whitespace exceeds 100; whitespace inside the text counts.
CheapPathIffStrippedLength ==
    (call.fn = "_extract_text_from_pdf" /\ call.arg.fail_at = 0)
        => /\ TookCheapPath
                <=> Len(StrStrip(PdfDirectText(call.arg))) > SubstantialTextLen
           /\ TookCheapPath => call.ret.value = PdfDirectText(call.arg)

CheapPathOnInnerWhitespace ==
    /\ call.fn = "_extract_text_from_pdf"
    /\ call.arg.fail_at = 0
    /\ NonWhitespaceLen(PdfDirectText(call.arg)) < SubstantialTextLen
    /\ TookCheapPath
    /\ ~call.ret.raised

\* C8: when direct extraction is insufficient or raised,
\* _extract_text_from_pdf returns the OCR text if it is non-empty after
\* stripping, and otherwise the text direct extraction produced so far; it
\* returns that text too when rendering or OCR raises, and never raises.
PdfOcrTierResult ==
    (call.fn = "_extract_text_from_pdf" /\ ~PdfCheapPath(call.arg))
        => /\ ~call.ret.raised
           /\ call.ret.value =
                IF /\ ~call.arg.render_raises
                   /\ StrStrip(PdfOcrText(parser[1], call.arg)) # ""
                THEN PdfOcrText(parser[1], call.arg)
                ELSE PdfDirectText(call.arg)

PdfRenderFailureSeen ==
    /\ call.fn = "_extract_text_from_pdf"
    /\ call.arg.render_raises
    /\ call.arg.pages = <<"Jane Doe\n">>
    /\ call.ret = Returned("Jane Doe\n\n",
                           <<"PyPDF2.PdfReader", "pdf2image.convert_from_bytes">>)

\* ResumeData with every field at its default
DefaultRecord ==
    [name |-> "Unknown Name", email |-> "", phone |-> "", title |-> "",
     summary |-> "", skills |-> <<>>, experience |-> <<>>, education |-> "",
     location |-> "", linkedin_url |-> None, github_url |-> None,
     years_experience |-> None]

\* C9: on empty text _parse_resume_text returns the all-default record, and
\* no extractor raises.
EmptyTextGivesDefaults ==
    (call.fn = "_parse_resume_text" /\ call.arg.text = "")
        => /\ ~call.ret.raised
           /\ call.ret.value = DefaultRecord

EmptyTextParsed ==
    /\ call.fn = "_parse_resume_text"
    /\ call.arg = [text |-> "", doc |-> DocRaises]
    /\ parser[1].nlp
    /\ call.ret.value.name = "Unknown Name"

(***************************************************************************)
(* Properties of the field extractors in two processes (ExtractSpec)       *)
(***************************************************************************)
\* C5: two calls of one extractor on identical text return identical
\* output, in the same or in different processes; _extract_skills returns
\* the same list both times.
ExtractorsDeterministic ==
    \A p, q \in Procs :
        (/\ procs[p].out # None
         /\ procs[q].out # None
         /\ procs[p].out[1].fn = procs[q].out[1].fn)
            => procs[p].out[1].ret = procs[q].out[1].ret

\* C6: the list _extract_skills returns has at most 20 elements and the
\* list _extract_experience returns has at most 5.
ListsCapped ==
    \A p \in Procs :
        procs[p].out # None
            => /\ procs[p].out[1].fn = "_extract_skills"
                    => Len(procs[p].out[1].ret) <= SkillsLimit
               /\ procs[p].out[1].fn = "_extract_experience"
                    => Len(procs[p].out[1].ret) <= ExperienceLimit

ListsCutAtCap ==
    /\ input = SkillsText(MaxSkills)
    /\ procs[1].out # None
    /\ procs[1].out[1].fn = "_extract_skills"
    /\ Len(procs[1].out[1].ret) = SkillsLimit
    /\ procs[2].out # None
    /\ procs[2].out[1].fn = "_extract_experience"

(***************************************************************************)
(* Properties of the upload route (Spec)                                   *)
(***************************************************************************)
\* the file name, extension, size-ceiling and non-empty checks all pass
ChecksPass(r) ==
    /\ r.filename # ""
    /\ PathSuffix(r.filename) \in allowed_extensions
    /\ r.file[1].size <= MAX_FILE_SIZE
    /\ r.file[1].size > 0

RECURSIVE SumInserts(_)
SumInserts(n) == IF n = 0 THEN 0 ELSE requests[n].inserts + SumInserts(n - 1)

\* C10: a resume document is inserted at most once per request, and only
\* after every check passed and parse_resume_file returned a record; when a
\* check fails the parser is never invoked and nothing is inserted; when
\* parsing raises nothing is inserted and the caller receives an error.
InsertOnceAfterParse ==
    /\ Len(db) = SumInserts(MaxRequests)
    /\ \A id \in RequestIds :
          LET r == requests[id]
          IN  /\ r.inserts <= 1
              /\ r.inserts = 1
                    => /\ ChecksPass(r)
                       /\ r.parsed # None
                       /\ ~r.parsed[1].raised
                       /\ CompleteRecord(r.parsed[1].value)
              /\ (r.pc # "idle" /\ ~ChecksPass(r))
                    => r.parse_calls = 0 /\ r.inserts = 0
              /\ (r.parsed # None /\ r.parsed[1].raised)
                    => /\ r.inserts = 0
                       /\ r.response # None
                       /\ r.response[1].status_code = 500

InsertedAfterParse ==
    /\ Len(db) = 1
    /\ requests[1].inserts = 1
    /\ requests[1].response # None
    /\ requests[1].response[1].status_code = 200
    /\ requests[2].parsed # None
    /\ requests[2].parsed[1].raised

(***************************************************************************)
(* The field extractors called one at a time on a constructed parser: the  *)
(* OCR libraries are absent, the spaCy model is loaded or not.             *)
(***************************************************************************)
FieldEnvs ==
    {e \in Environments : e.paddle = "missing" /\ e.tesseract = "missing"
                          /\ e.spacy \in {"missing", "ok"}}

FieldInit ==
    /\ env \in FieldEnvs
    /\ hash_seed \in Seeds
    /\ parser = Some(SimpleResumeParser(env))
    /\ requests = <<>>
    /\ db = <<>>
    /\ call = NoCall
    /\ input = NoInput
    /\ procs = <<>>
    /\ router = FALSE

CallParseJobBlock(block) ==
    /\ Ready
    /\ call' = [fn |-> "_parse_job_block", arg |-> block,
                ret |-> Returned(_parse_job_block(block), <<>>)]
    /\ UNCHANGED <<env, hash_seed, parser, requests, db, input, procs, router>>

CallExtractName(in) ==
    /\ Ready
    /\ call' = [fn |-> "_extract_name", arg |-> in,
                ret |-> Returned(_extract_name(in.text, parser[1].nlp, in.doc),
                                 <<>>)]
    /\ UNCHANGED <<env, hash_seed, parser, requests, db, input, procs, router>>

CallExtractYears(text) ==
    /\ Ready
    /\ call' = [fn |-> "_extract_years_experience", arg |-> text,
                ret |-> Returned(_extract_years_experience(text), <<>>)]
    /\ UNCHANGED <<env, hash_seed, parser, requests, db, input, procs, router>>

CallExtractSummary(text) ==
    /\ Ready
    /\ call' = [fn |-> "_extract_summary", arg |-> text,
                ret |-> Returned(_extract_summary(text), <<>>)]
    /\ UNCHANGED <<env, hash_seed, parser, requests, db, input, procs, router>>

CallExtractSkills(text) ==
    /\ Ready
    /\ call' = [fn |-> "_extract_skills", arg |-> text,
                ret |-> Returned(_extract_skills(text, hash_seed), <<>>)]
    /\ UNCHANGED <<env, hash_seed, parser, requests, db, input, procs, router>>

CallExtractPhone(text) ==
    /\ Ready
    /\ call' = [fn |-> "_extract_phone", arg |-> text,
                ret |-> Returned(_extract_phone(text), <<>>)]
    /\ UNCHANGED <<env, hash_seed, parser, requests, db, input, procs, router>>

FieldNext ==
    \/ \E block \in JobBlocks : CallParseJobBlock(block)
    \/ \E text \in PhoneTexts : CallExtractPhone(text)
    \/ \E text \in SkillsTexts : CallExtractSkills(text)
    \/ \E text \in SummaryTexts : CallExtractSummary(text)
    \/ \E text \in YearsTexts : CallExtractYears(text)
    \/ \E in \in NameInputs \cup LineNameInputs : CallExtractName(in)
    \/ \E in \in ResumeInputs : CallParseText(in)

FieldSpec == FieldInit /\ [][FieldNext]_vars

(***************************************************************************)
(* Properties of the field extractors (FieldSpec)                          *)
(***************************************************************************)
\* C11: a job block of four lines -- a company line with a legal-entity
\* marker, a line with a role keyword, a 'Month YYYY - Present' line and a
\* 'City, ST' line -- yields exactly one WorkExperience whose company, title
\* and location are those lines verbatim, whose start_date is the
\* 'Month YYYY' text and whose end_date is 'Present'.
FourLineBlockParsed ==
    \A c \in JobCompanies, t \in JobTitles, m \in JobMonths, l \in JobCities :
        (call.fn = "_parse_job_block" /\ call.arg = FourLineBlock(c, t, m, l))
            => /\ ~call.ret.raised
               /\ Len(call.ret.value) = 1
               /\ call.ret.value[1].company = c
               /\ call.ret.value[1].title = t
               /\ call.ret.value[1].location = Some(l)
               /\ call.ret.value[1].start_date = Some(m)
               /\ call.ret.value[1].end_date = Some("Present")

TechCorpBlockParsed ==
    /\ call.fn = "_parse_job_block"
    /\ call.arg = "Tech Corp Inc\nSenior Engineer\nJanuary 2020 - Present\nSan Francisco, CA"
    /\ call.ret.value[1].company = "Tech Corp Inc"
    /\ call.ret.value[1].start_date = Some("January 2020")

\* C12: multi-line text run through _parse_resume_text keeps its line
\* structure for the line- and block-based rules: a 'Work Experience'
\* section holding two job blocks separated by a blank line yields two
\* experience entries, in text order.
TwoBlocksGiveTwoEntries ==
    (call.fn = "_parse_resume_text" /\ call.arg.text = TwoJobResume)
        => /\ ~call.ret.raised
           /\ Len(call.ret.value.experience) = 2
           /\ call.ret.value.experience[1].company = "Tech Corp Inc"
           /\ call.ret.value.experience[2].title = "Software Developer"

\* C13: for text whose first line is 'Jane Q. Public', with no contact-info
\* marker on it, name extraction returns 'Jane Q. Public'.
MiddleInitialAccepted ==
    (/\ call.fn = "_extract_name"
     /\ StrSplit(call.arg.text, "\n")[1] = "Jane Q. Public")
        => call.ret.value = "Jane Q. Public"

\* C20: _extract_name takes the first PERSON entity of at most 4 tokens in
\* the first 800 characters that passes validation, when the model is
\* loaded; otherwise the first qualifying line; otherwise 'Unknown Name'.
\* The result is 'Unknown Name' or passes _is_valid_name.
NamePrecedence ==
    call.fn = "_extract_name"
        => LET text == call.arg.text
               ents == IF parser[1].nlp /\ ~call.arg.doc.raises
                       THEN EntsWithin(call.arg.doc, Take(text, NerTextLimit))
                       ELSE <<>>
               lines == Take(StrSplit(text, "\n"), NameLinesLimit)
               people == {k \in 1..Len(ents) : PersonOK(ents[k])}
               named == {l \in 1..Len(lines) : NameLineOK(lines[l])}
               name == call.ret.value
           IN  /\ ~call.ret.raised
               /\ people # {}
                    => \E k \in people :
                          /\ \A j \in people : k <= j
                          /\ name = StrStrip(ents[k].text)
               /\ (people = {} /\ named # {})
                    => \E l \in named :
                          /\ \A j \in named : l <= j
                          /\ name = JoinWords(StrWords(lines[l]))
               /\ (people = {} /\ named = {}) => name = "Unknown Name"
               /\ name = "Unknown Name" \/ _is_valid_name(name)

EntityBeatsLine ==
    /\ call.fn = "_extract_name"
    /\ parser[1].nlp
    /\ call.ret.value = "Mary  Jones"
    /\ NameLineOK(StrSplit(call.arg.text, "\n")[2])
    /\ call.ret.value # JoinWords(StrWords(StrSplit(call.arg.text, "\n")[2]))

\* the leftmost match of the k-th phrasing in the text of the call
YearsMatch(k) == Search(years_patterns[k], call.arg, FlagI)

YearsInRange(k) ==
    /\ YearsMatch(k).ok
    /\ StrToInt(YearsMatch(k).caps[1]) \in 0..MaxYears

\* C14, as stated: _extract_years_experience returns absent or an integer in
\* 0..50; when the N of the 'N(+) years (of) experience' phrase is in 0..50
\* it returns N; when that N is outside 0..50 the result is absent, even if
\* another phrasing in the text carries an in-range number.
YearsAbsentWhenFirstPhraseOutOfRange ==
    call.fn = "_extract_years_experience"
        => /\ call.ret.value = None \/ call.ret.value[1] \in 0..MaxYears
           /\ YearsInRange(1)
                => call.ret.value = Some(StrToInt(YearsMatch(1).caps[1]))
           /\ (YearsMatch(1).ok /\ ~YearsInRange(1)) => call.ret.value = None

\* C14, amended: _extract_years_experience returns absent or an integer in
\* 0..50; the three phrasings are tried in order and the result is the N of
\* the first phrasing whose leftmost match has N in 0..50, so an out-of-range
\* N under one phrasing does not stop the later phrasings from being tried;
\* the result is absent only when no phrasing has an in-range leftmost match.
YearsFirstInRangePhrasing ==
    call.fn = "_extract_years_experience"
        => /\ ~call.ret.raised
           /\ call.ret.value = None \/ call.ret.value[1] \in 0..MaxYears
           /\ \A k \in 1..Len(years_patterns) :
                  (YearsInRange(k) /\ \A j \in 1..(k - 1) : ~YearsInRange(j))
                      => call.ret.value = Some(StrToInt(YearsMatch(k).caps[1]))
           /\ (\A k \in 1..Len(years_patterns) : ~YearsInRange(k))
                  => call.ret.value = None

YearsLaterPhrasingUsed ==
    /\ call.fn = "_extract_years_experience"
    /\ YearsMatch(1).ok
    /\ StrToInt(YearsMatch(1).caps[1]) > MaxYears
    /\ YearsInRange(2)
    /\ call.ret.value = Some(StrToInt(YearsMatch(2).caps[1]))

\* the whitespace-collapsed candidates of the three labels, in the order of
\* the patterns
SummaryCandidates(text) ==
    [k \in 1..Len(summary_patterns) |-> SummaryCandidate(text, k)]

\* the labels whose candidate is 50..500 long
FittingLabels(cands) ==
    {k \in 1..Len(cands) :
        cands[k] # None /\ Len(cands[k][1]) \in SummaryMinLen..SummaryMaxLen}

\* name is the candidate of the first fitting label, '' when none fits
FirstFitting(cands, fits, name) ==
    /\ name = "" \/ Len(name) \in SummaryMinLen..SummaryMaxLen
    /\ \A k \in fits : (\A j \in fits : k <= j) => name = cands[k][1]
    /\ fits = {} => name = ""

\* C15: _extract_summary returns '' or a string of length 50..500; a
\* candidate whose whitespace-collapsed length is below 50 or above 500 is
\* rejected and the next label (Summary, Objective, Profile) is tried; with
\* no in-range candidate the result is ''.
SummaryLengthWindow ==
    call.fn = "_extract_summary"
        => /\ ~call.ret.raised
           /\ LET cands == SummaryCandidates(call.arg)
              IN  FirstFitting(cands, FittingLabels(cands), call.ret.value)

\* cands[1] is one character too long and cands[2] is returned
TooLongThenFitting(cands, name) ==
    /\ cands[1] # None
    /\ Len(cands[1][1]) = SummaryMaxLen + 1
    /\ 2 \in FittingLabels(cands)
    /\ name = cands[2][1]

SummaryTooLongSkipped ==
    /\ call.fn = "_extract_summary"
    /\ Len(call.ret.value) = 60
    /\ TooLongThenFitting(SummaryCandidates(call.arg), call.ret.value)

\* the stripped items of the labelled Skills and Technologies sections
SectionItemsOf(text) ==
    UNION {IF Search(skills_patterns[p], text, FlagIMS).ok
           THEN LET items == ReSplit(SkillDelimiters,
                                     Search(skills_patterns[p], text, FlagIMS).caps[1],
                                     NoFlags)
                IN  {StrStrip(items[k]) : k \in 1..Len(items)}
           ELSE {} : p \in 1..Len(skills_patterns)}

\* 2..25 characters, all of them letters, digits, blanks, '.', '+' or '#'
PlainToken(tok) ==
    /\ Len(tok) \in 2..25
    /\ \A i \in 1..Len(tok) :
          Ch(tok, i) \in UpperChars \cup LowerChars \cup DigitChars
                           \cup {" ", ".", "+", "#"}

HasLetterOrDigit(tok) ==
    \E i \in 1..Len(tok) : Ch(tok, i) \in UpperChars \cup LowerChars \cup DigitChars

\* the names of the vocabulary whose lower-cased form occurs in the
\* lower-cased text
VocabularyIn(text) ==
    {tech_skills[k] : k \in {j \in 1..Len(tech_skills) :
        StrContains(StrLower(text), StrLower(tech_skills[j]))}}

\* the list is duplicate-free and, when expected has at most 20 elements,
\* holds exactly the elements of expected
ExactlyWhenSmall(list, expected) ==
    /\ \A i, j \in 1..Len(list) : list[i] = list[j] => i = j
    /\ Cardinality(expected) <= SkillsLimit
          => {list[i] : i \in 1..Len(list)} = expected

\* C16, as stated: the skills result is the duplicate-free union of the
\* section tokens that are 2..25 characters long and consist only of
\* letters, digits, spaces, '.', '+', '#', and of the vocabulary names
\* occurring in the text; when the union has at most 20 elements the result
\* contains all of them and nothing else.
SkillsArePlainTokensAndVocabulary ==
    call.fn = "_extract_skills"
        => ExactlyWhenSmall(call.ret.value,
                            {tok \in SectionItemsOf(call.arg) : PlainToken(tok)}
                                \cup VocabularyIn(call.arg))

\* C16, amended: as stated, for the section tokens that in addition hold at
\* least one letter or digit; a token made only of '.', '+', '#' and blanks
\* is left out.
SkillsAreAlnumTokensAndVocabulary ==
    call.fn = "_extract_skills"
        => /\ ~call.ret.raised
           /\ ExactlyWhenSmall(call.ret.value,
                               {tok \in SectionItemsOf(call.arg) :
                                   PlainToken(tok) /\ HasLetterOrDigit(tok)}
                                   \cup VocabularyIn(call.arg))

SectionAndVocabularySkillsSeen ==
    /\ call.fn = "_extract_skills"
    /\ \E tok \in SectionItemsOf(call.arg) : PlainToken(tok) /\ ~HasLetterOrDigit(tok)
    /\ {call.ret.value[i] : i \in 1..Len(call.ret.value)} = {"C#", "AWS"}

\* the leftmost match of each phone pattern in the text, in the order
\* international-prefixed, parenthesised, plain
PhoneHits(text) ==
    [k \in 1..Len(phone_patterns) |-> Search(phone_patterns[k], text, NoFlags)]

\* number is the leftmost match of the first pattern with a match, and ''
\* exactly when no pattern has one
FirstPatternWins(hits, number) ==
    /\ (number = "") <=> (\A k \in 1..Len(hits) : ~hits[k].ok)
    /\ \A k \in 1..Len(hits) :
          (hits[k].ok /\ \A j \in 1..(k - 1) : ~hits[j].ok)
              => number = hits[k].text

\* C17: _extract_phone returns the first match of the first of the patterns
\* international-prefixed, parenthesised, plain that matches anywhere in the
\* text: an international-prefixed number wins over a plain number that
\* occurs earlier; '' is returned only when no pattern matches.
PhonePatternPrecedence ==
    call.fn = "_extract_phone"
        => /\ ~call.ret.raised
           /\ FirstPatternWins(PhoneHits(call.arg), call.ret.value)
           /\ StrContains(call.arg, "+1 415-555-0100")
                => Ch(call.ret.value, 1) = "+"

InternationalAfterPlain ==
    /\ call.fn = "_extract_phone"
    /\ call.arg = "Call 555-123-4567, or +1 415-555-0100."
    /\ call.ret.value = "+1 415-555-0100"

\* no request has called parser.parse_resume_file yet
NoParseYet == \A id \in RequestIds : requests[id].parse_calls = 0

\* a step of an upload request
RequestStep == \E id \in RequestIds : requests'[id] # requests[id]

\* every attribute self has keeps its value
HandlesKept ==
    parser # None
        => /\ parser' # None
           /\ \A a \in DOMAIN parser[1] :
                 a \in DOMAIN parser'[1] /\ parser'[1][a] = parser[1][a]

\* C18, as stated: the OCR engine and NER model handles are constructed
\* lazily on the first use, so none exists while no parse call has been
\* made; they are constructed at most once and cached, and no parse call
\* reinitialises or modifies self.ocr, self.use_tesseract or self.nlp.
HandlesBuiltOnFirstUse ==
    /\ [](NoParseYet => parser = None)
    /\ [][HandlesKept /\ (RequestStep /\ ~NoParseYet => parser' = parser)]_vars

\* C18, amended: the handles are constructed eagerly, by __init__ while the
\* routes module is imported, so all three attributes are set before any
\* request is served; each is set at most once and cached, and no step of a
\* request (a parse call included, successful or failing) reinitialises or
\* modifies self.ocr, self.use_tesseract or self.nlp.
HandlesBuiltOnceAtImport ==
    /\ [](router => parser = None \/ DOMAIN parser[1] = ParserAttributes)
    /\ [][HandlesKept /\ (RequestStep => parser' = parser)]_vars

BothRequestsParsedWithSameHandles ==
    /\ \A id \in RequestIds : requests[id].parse_calls = 1
    /\ parser = Some(SimpleResumeParser(env))
    /\ parser[1].nlp

\* C19: initialisation of the shared handles is safe under concurrent
\* requests: it runs once, while the module is imported (an attribute is only
\* ever added then, never set again); no request, at any point of any
\* interleaving, finds a parser short of ocr, use_tesseract or nlp; and no
\* step of a request writes parser, router, env or hash_seed.
InitialisedBeforeAnyRequest ==
    /\ [](\A id \in RequestIds :
             requests[id].pc # "idle"
                 => /\ router
                    /\ parser = None \/ DOMAIN parser[1] = ParserAttributes)
    /\ [][/\ parser' # parser
             => /\ ~router /\ ~RequestStep
                /\ parser = None \/ DOMAIN parser[1] # ParserAttributes
                /\ parser = None \/ DOMAIN parser[1] \subseteq DOMAIN parser'[1]
                /\ DOMAIN parser'[1] # (IF parser = None THEN {} ELSE DOMAIN parser[1])
          /\ RequestStep => UNCHANGED <<parser, router, env, hash_seed>>]_vars

RequestsInterleaved ==
    /\ requests[1].pc = "inserting"
    /\ requests[2].pc = "reading"
    /\ requests[1].parse_calls = 1
    /\ parser # None /\ DOMAIN parser[1] = ParserAttributes

\* the line, stripped, is non-empty, at most 60 characters long, holds no
\* contact-info marker and is 2..4 capitalised alphabetic words that pass
\* _is_valid_name
QualifyingLine(raw) ==
    /\ StrStrip(raw) # ""
    /\ Len(StrStrip(raw)) <= NameLineMaxLen
    /\ \A ind \in ContactIndicators : ~StrContains(StrLower(StrStrip(raw)), ind)
    /\ Len(StrWords(raw)) \in 2..4
    /\ \A k \in 1..Len(StrWords(raw)) :
          Ch(StrWords(raw)[k], 1) \in UpperChars /\ IsAlpha(StrWords(raw)[k])
    /\ _is_valid_name(JoinWords(StrWords(raw)))

\* name is the name of the first qualifying line of lines, if there is one
FirstQualifyingLine(lines, name) ==
    \A l \in 1..Len(lines) :
        (QualifyingLine(lines[l]) /\ \A j \in 1..(l - 1) : ~QualifyingLine(lines[j]))
            => name = JoinWords(StrWords(lines[l]))

\* the call of _extract_name reached the pattern-based loop
NameFromLines ==
    /\ call.fn = "_extract_name"
    /\ ~(parser[1].nlp /\ \E k \in 1..Len(call.arg.doc.ents) :
                              PersonOK(call.arg.doc.ents[k]))

\* C21, as stated: the line-pattern step examines the first 10 non-empty
\* lines: blank lines do not count towards the limit, so a valid name among
\* the first 10 non-empty lines is found even behind blank lines; lines
\* longer than 60 characters and lines with a contact-info marker are
\* skipped.
NameAmongFirstNonEmptyLines ==
    NameFromLines
        => FirstQualifyingLine(
               Take(SelectSeq(StrSplit(call.arg.text, "\n"),
                              LAMBDA raw : StrStrip(raw) # ""),
                    NameLinesLimit),
               call.ret.value)

\* C21, amended: the line-pattern step examines the first 10 physical lines
\* of the text, blank ones included, so a name on a later line is not found
\* and the result is 'Unknown Name'; among these lines, blank lines, lines
\* longer than 60 characters after stripping and lines with a contact-info
\* marker are skipped, and the first line that qualifies gives the name.
NameAmongFirstPhysicalLines ==
    NameFromLines
        => LET lines == Take(StrSplit(call.arg.text, "\n"), NameLinesLimit)
           IN  /\ FirstQualifyingLine(lines, call.ret.value)
               /\ (\A l \in 1..Len(lines) : ~QualifyingLine(lines[l]))
                     => call.ret.value = "Unknown Name"

NameBehindTenBlankLines ==
    /\ NameFromLines
    /\ Len(StrSplit(call.arg.text, "\n")) > NameLinesLimit
    /\ StrSplit(call.arg.text, "\n")[NameLinesLimit + 1] = "Late Name"
    /\ \A l \in 1..NameLinesLimit : StrSplit(call.arg.text, "\n")[l] = ""
    /\ call.ret.value = "Unknown Name"

(***************************************************************************)
(* The extractors of one parser called one at a time on texts that need no *)
(* hash seed.                                                              *)
(***************************************************************************)
TextInit ==
    /\ env \in FieldEnvs
    /\ hash_seed = 0
    /\ parser = Some(SimpleResumeParser(env))
    /\ router = FALSE
    /\ requests = <<>>
    /\ db = <<>>
    /\ call = NoCall
    /\ input = NoInput
    /\ procs = <<>>

CallExtractTitle(text) ==
    /\ Ready
    /\ call' = [fn |-> "_extract_title", arg |-> text,
                ret |-> Returned(_extract_title(text), <<>>)]
    /\ UNCHANGED <<env, hash_seed, parser, router, requests, db, input, procs>>

CallExtractExperience(text) ==
    /\ Ready
    /\ call' = [fn |-> "_extract_experience", arg |-> text,
                ret |-> Returned(_extract_experience(text), <<>>)]
    /\ UNCHANGED <<env, hash_seed, parser, router, requests, db, input, procs>>

CallParseDates(date_text) ==
    /\ Ready
    /\ call' = [fn |-> "_parse_dates", arg |-> date_text,
                ret |-> Returned(_parse_dates(date_text), <<>>)]
    /\ UNCHANGED <<env, hash_seed, parser, router, requests, db, input, procs>>

CallExtractLocation(in) ==
    /\ Ready
    /\ call' = [fn |-> "_extract_location", arg |-> in,
                ret |-> Returned(_extract_location(in.text, parser[1].nlp, in.doc),
                                 <<>>)]
    /\ UNCHANGED <<env, hash_seed, parser, router, requests, db, input, procs>>

CallExtractLinkedin(text) ==
    /\ Ready
    /\ call' = [fn |-> "_extract_linkedin_url", arg |-> text,
                ret |-> Returned(_extract_linkedin_url(text), <<>>)]
    /\ UNCHANGED <<env, hash_seed, parser, router, requests, db, input, procs>>

CallExtractGithub(text) ==
    /\ Ready
    /\ call' = [fn |-> "_extract_github_url", arg |-> text,
                ret |-> Returned(_extract_github_url(text), <<>>)]
    /\ UNCHANGED <<env, hash_seed, parser, router, requests, db, input, procs>>

CallCleanText(text) ==
    /\ Ready
    /\ call' = [fn |-> "_clean_text", arg |-> text,
                ret |-> Returned(_clean_text(text), <<>>)]
    /\ UNCHANGED <<env, hash_seed, parser, router, requests, db, input, procs>>

TextNext ==
    \/ \E text \in CleanTexts : CallCleanText(text)
    \/ \E text \in UrlTexts : CallExtractLinkedin(text)
    \/ \E text \in UrlTexts : CallExtractGithub(text)
    \/ \E in \in LocationInputs : CallExtractLocation(in)
    \/ \E date_text \in DateTexts : CallParseDates(date_text)
    \/ \E block \in DateLineBlocks : CallParseJobBlock(block)
    \/ \E text \in ExperienceTexts : CallExtractExperience(text)
    \/ \E text \in TitleTexts : CallExtractTitle(text)

TextSpec == TextInit /\ [][TextNext]_vars

\* the p-th title pattern matches the k-th line
TitleHit(lines, k, p) == Search(title_patterns[p], lines[k], FlagI)

\* title is what the first match in line-major order gives: the captured
\* remainder for the label pattern, the whole match otherwise; '' without a
\* match
FirstTitleMatch(lines, title) ==
    /\ \A k \in 1..Len(lines) : \A p \in 1..Len(title_patterns) :
          (/\ TitleHit(lines, k, p).ok
           /\ \A j \in 1..(k - 1) : \A q \in 1..Len(title_patterns) :
                 ~TitleHit(lines, j, q).ok
           /\ \A q \in 1..(p - 1) : ~TitleHit(lines, k, q).ok)
              => title = StrStrip(IF p = 1 THEN TitleHit(lines, k, p).caps[1]
                                  ELSE TitleHit(lines, k, p).text)
    /\ (\A k \in 1..Len(lines) : \A p \in 1..Len(title_patterns) :
           ~TitleHit(lines, k, p).ok)
          => title = ""

\* C22: _extract_title scans only the first 15 lines, in order, and within
\* a line tries the label pattern before the role-name patterns; the first
\* match in that line-major order wins.  A label match returns the captured
\* remainder, a role-name match the whole matched phrase, and '' is returned
\* when none of the first 15 lines matches, even if a later line does.
TitleLineMajor ==
    call.fn = "_extract_title"
        => /\ ~call.ret.raised
           /\ FirstTitleMatch(Take(StrSplit(call.arg, "\n"), TitleLinesLimit),
                              call.ret.value)

TitleOnSixteenthLine ==
    /\ call.fn = "_extract_title"
    /\ call.arg = TitleText(TitleLinesLimit, "Senior Software Engineer at Acme",
                            "Title: Staff Wizard")
    /\ call.ret.value = ""

RoleLineBeforeLabelLine ==
    /\ call.fn = "_extract_title"
    /\ call.arg = TitleText(0, "Senior Software Engineer at Acme",
                            "Title: Staff Wizard")
    /\ call.ret.value = "Senior Software Engineer"

\* the first of the lines, none of the taken ones, that passes the test Q
\* (0: none)
Taker(header, taken, Q(_)) ==
    LET fit == {k \in 1..Len(header) : k \notin taken /\ Q(header[k])}
    IN  IF fit = {} THEN 0 ELSE CHOOSE k \in fit : \A j \in fit : k <= j

CompanyLine(line) == \E ind \in CompanyIndicators : StrContains(StrLower(line), ind)

TitleLine(line) == \E ind \in TitleIndicators : StrContains(StrLower(line), ind)

DatesLine(line) == Search(DateLine, line, FlagI).ok

PlaceLine(line) == Search(CityState, line, NoFlags).ok

\* the lines that take the slots, in the order of priority: <<company,
\* title, dates, location>>, 0 for an empty slot
Takers(header) ==
    LET c == Taker(header, {}, CompanyLine)
        t == Taker(header, {c}, TitleLine)
        d == Taker(header, {c, t}, DatesLine)
        l == Taker(header, {c, t, d}, PlaceLine)
    IN  <<c, t, d, l>>

\* the description lines: the lines of the header that take no slot, then
\* the lines after the header
DescriptionLines(lines, takers) ==
    SelectSeq([k \in 1..Len(lines) |->
                 IF k <= HeaderLines /\ k \in {takers[s] : s \in 1..4}
                 THEN None ELSE Some(lines[k])],
              LAMBDA o : o # None)

\* the entry holds what the takers say
SlotsFilled(job, lines, takers, about) ==
    /\ job.company = IF takers[1] > 0 THEN lines[takers[1]] ELSE "Unknown Company"
    /\ job.title = IF takers[2] > 0 THEN lines[takers[2]] ELSE "Unknown Position"
    /\ job.location = IF takers[4] > 0 THEN Some(lines[takers[4]]) ELSE None
    /\ job.description =
           IF Len(about) = 0 THEN None
           ELSE Some(JoinLines([k \in 1..(IF Len(about) < DescriptionLimit
                                          THEN Len(about) ELSE DescriptionLimit)
                                  |-> about[k][1]]))

\* C23: in _parse_job_block each of the first 4 non-empty lines goes to
\* exactly one of company, title, dates, location or description, with
\* priority company > title > date > location, each slot taking only the
\* first line that reaches it and qualifies; a line that qualifies for no
\* still-empty slot is a description line, as is every line after the 4th,
\* and the stored description is the first 3 description lines in block
\* order (absent when there are none).
JobLinesAssignedByPriority ==
    (call.fn = "_parse_job_block" /\ call.ret.value # None)
        => LET lines == BlockLines(call.arg)
               takers == Takers(Take(lines, HeaderLines))
           IN  SlotsFilled(call.ret.value[1], lines, takers,
                           DescriptionLines(lines, takers))

LateLinesDescribed ==
    /\ call.fn = "_parse_job_block"
    /\ Len(BlockLines(call.arg)) = 8
    /\ call.ret.value # None
    /\ call.ret.value[1].company = "Directors Company"
    /\ call.ret.value[1].title = "Engineering Manager at Initech Inc"
    /\ call.ret.value[1].description = Some("Led team\nShipped\nMore")

\* C24, as stated: a job block yields an entry if and only if a company
\* line or a title line was found among its first 4 lines, a block of a
\* single such line included; company and title are non-empty, the one not
\* found is 'Unknown Company' / 'Unknown Position', and never both.
EntryIffCompanyOrTitle ==
    call.fn = "_parse_job_block"
        => LET takers == Takers(Take(BlockLines(call.arg), HeaderLines))
           IN  /\ (call.ret.value # None) <=> (takers[1] > 0 \/ takers[2] > 0)
               /\ call.ret.value # None
                     => /\ call.ret.value[1].company # ""
                        /\ call.ret.value[1].title # ""
                        /\ (call.ret.value[1].company = "Unknown Company") <=> (takers[1] = 0)
                        /\ (call.ret.value[1].title = "Unknown Position") <=> (takers[2] = 0)

\* C24, amended: a job block yields an entry if and only if it has at least
\* 2 non-empty lines and a company line or a title line was found among its
\* first 4 lines; a block of a single line yields none.  In every entry
\* company and title are non-empty, the one not found is 'Unknown Company' /
\* 'Unknown Position', and never both.
EntryIffTwoLinesAndCompanyOrTitle ==
    call.fn = "_parse_job_block"
        => LET lines == BlockLines(call.arg)
               takers == Takers(Take(lines, HeaderLines))
           IN  /\ (call.ret.value # None)
                     <=> (Len(lines) >= 2 /\ (takers[1] > 0 \/ takers[2] > 0))
               /\ call.ret.value # None
                     => /\ call.ret.value[1].company # ""
                        /\ call.ret.value[1].title # ""
                        /\ (call.ret.value[1].company = "Unknown Company") <=> (takers[1] = 0)
                        /\ (call.ret.value[1].title = "Unknown Position") <=> (takers[2] = 0)
                        /\ ~(/\ call.ret.value[1].company = "Unknown Company"
                             /\ call.ret.value[1].title = "Unknown Position")

SingleLineBlockDropped ==
    /\ call.fn = "_parse_job_block"
    /\ call.arg = "Senior Engineer at Tech Corp Inc"
    /\ call.ret.value = None

\* the blank-line-separated blocks of the experience section that are at
\* least 20 characters long, stripped, in the order of the text
LongAmong(blocks) ==
    SelectSeq([k \in 1..Len(blocks) |-> StrStrip(blocks[k])],
              LAMBDA block : Len(block) >= MinBlockChars)

LongBlocksOfMatch(m) ==
    IF ~m.ok THEN <<>>
    ELSE LongAmong(ReSplit(BlankLine, StrStrip(m.caps[1]), NoFlags))

LongBlocks(text) == LongBlocksOfMatch(Search(exp_pattern, text, FlagIMS))

\* the entries the blocks give, in the order of the blocks
EntriesOf(blocks) ==
    LET jobs == [k \in 1..Len(blocks) |-> _parse_job_block(blocks[k])]
        found == SelectSeq(jobs, LAMBDA job : job # None)
    IN  [k \in 1..Len(found) |-> found[k][1]]

\* C25, as stated: _extract_experience parses at most 5 blocks: only the
\* first 5 blocks of at least 20 characters are handed to _parse_job_block,
\* blocks after those never contribute an entry, and the entries are in the
\* order of their blocks.
FirstFiveBlocksParsed ==
    call.fn = "_extract_experience"
        => call.ret.value = EntriesOf(Take(LongBlocks(call.arg), ExperienceLimit))

\* C25, amended: _extract_experience returns at most 5 entries: every block
\* of at least 20 characters is handed to _parse_job_block, in the order of
\* the text, and the first 5 entries produced are returned in that order; a
\* block after the 5th such block contributes an entry when an earlier block
\* produced none.
FirstFiveEntriesReturned ==
    call.fn = "_extract_experience"
        => /\ ~call.ret.raised
           /\ Len(call.ret.value) <= ExperienceLimit
           /\ call.ret.value = Take(EntriesOf(LongBlocks(call.arg)), ExperienceLimit)

SixthBlockContributes ==
    /\ call.fn = "_extract_experience"
    /\ call.arg = ExperienceOf(<<DudBlock>>, 6)
    /\ Len(call.ret.value) = ExperienceLimit
    /\ call.ret.value[ExperienceLimit].company = "Acme Corp 5"

\* the matches of the three date patterns: month-name range, bare-year
\* range, numeric month/year range
DateHits(date_text) ==
    [k \in 1..Len(date_patterns) |-> Search(date_patterns[k], date_text, FlagI)]

\* the (start, end) the match gives: 'Present' for an end of 'present' or
\* 'current' in any letter case
DatesOfHit(m) ==
    <<Some(StrStrip(m.caps[1])),
      Some(IF StrLower(StrStrip(m.caps[2])) \in {"present", "current"}
           THEN "Present" ELSE StrStrip(m.caps[2]))>>

\* dates is what the first pattern that matches gives, (absent, absent) for
\* the empty date line and without a match
FirstDatePattern(date_text, hits, dates) ==
    /\ \A k \in 1..Len(hits) :
          (date_text # "" /\ hits[k].ok /\ \A j \in 1..(k - 1) : ~hits[j].ok)
              => dates = DatesOfHit(hits[k])
    /\ (date_text = "" \/ \A k \in 1..Len(hits) : ~hits[k].ok)
          => dates = <<None, None>>

\* the date line of the block: the line that took the dates slot, '' when
\* none did
DateLineOf(lines, takers) == IF takers[3] > 0 THEN lines[takers[3]] ELSE ""

\* C26: _parse_dates tries the month-name range, the bare-year range, the
\* numeric month/year range and returns the (start, end) of the first
\* pattern that matches; the end is 'Present' whenever the range ends in
\* 'present' or 'current' in any letter case; the result is (absent, absent)
\* for an empty date line and without a match, and the job entry is still
\* produced then.
DatesOfFirstPattern ==
    /\ call.fn = "_parse_dates"
          => /\ ~call.ret.raised
             /\ FirstDatePattern(call.arg, DateHits(call.arg), call.ret.value)
    /\ (call.fn = "_parse_job_block" /\ call.arg \in DateLineBlocks)
          => /\ call.ret.value # None
             /\ FirstDatePattern(
                    DateLineOf(BlockLines(call.arg),
                               Takers(Take(BlockLines(call.arg), HeaderLines))),
                    DateHits(DateLineOf(BlockLines(call.arg),
                                        Takers(Take(BlockLines(call.arg), HeaderLines)))),
                    <<call.ret.value[1].start_date, call.ret.value[1].end_date>>)

UppercasePresentNormalised ==
    /\ call.fn = "_parse_dates"
    /\ call.arg = "03/2017 - PRESENT"
    /\ call.ret.value = <<Some("2017"), Some("Present")>>

EntryWithoutDates ==
    /\ call.fn = "_parse_job_block"
    /\ call.arg = "Acme LLC\nData Analyst\n2019 to 2020"
    /\ call.ret.value # None
    /\ call.ret.value[1].start_date = None
    /\ call.ret.value[1].end_date = None

\* 3..50 characters, none of '@', 'http', 'www' among them
PlausiblePlace(place) ==
    /\ Len(place) \in 3..50
    /\ ~StrContains(place, "@")
    /\ ~StrContains(place, "http")
    /\ ~StrContains(place, "www")

\* the candidates in the order they are tried: the GPE and LOC entities the
\* model finds in the first 1000 characters, then the first match of the
\* label pattern, of 'City, ST' and of 'City, Country'
PlaceCandidates(in, nlp) ==
    LET ents == IF nlp /\ ~in.doc.raises
                THEN EntsWithin(in.doc, Take(in.text, LocationTextLimit))
                ELSE <<>>
        places == SelectSeq(ents, LAMBDA ent : ent.label_ \in {"GPE", "LOC"})
        hits == [k \in 1..Len(location_patterns) |->
                   Search(location_patterns[k], in.text, NoFlags)]
        found == SelectSeq(hits, LAMBDA m : m.ok)
    IN  [k \in 1..Len(places) |-> StrStrip(places[k].text)]
          \o [k \in 1..Len(found) |-> StrStrip(found[k].caps[1])]

\* place is the first plausible candidate, '' when there is none
FirstPlausible(cands, place) ==
    /\ \A k \in 1..Len(cands) :
          (PlausiblePlace(cands[k]) /\ \A j \in 1..(k - 1) : ~PlausiblePlace(cands[j]))
              => place = cands[k]
    /\ (\A k \in 1..Len(cands) : ~PlausiblePlace(cands[k])) => place = ""

\* C27: _extract_location returns '' or a string of 3..50 characters with
\* none of '@', 'http', 'www'.  A candidate that fails validation does not
\* end the search: the next NER entity, then the label pattern, 'City, ST'
\* and 'City, Country', in that order, are still tried, and an NER failure
\* falls through to the patterns.
LocationSearchGoesOn ==
    call.fn = "_extract_location"
        => /\ ~call.ret.raised
           /\ call.ret.value = "" \/ PlausiblePlace(call.ret.value)
           /\ FirstPlausible(PlaceCandidates(call.arg, parser[1].nlp),
                             call.ret.value)

LabelRejectedThenCityFound ==
    /\ call.fn = "_extract_location"
    /\ Search(location_patterns[1], call.arg.text, NoFlags).ok
    /\ StrContains(Search(location_patterns[1], call.arg.text, NoFlags).caps[1], "@")
    /\ call.ret.value = "Austin, TX"

\* url starts with 'http://' or 'https://', in any letter case
HasScheme(url) ==
    \/ StrLower(Take(url, 7)) = "http://"
    \/ StrLower(Take(url, 8)) = "https://"

\* the text of the first of the patterns that matches, ignoring case
MatchedUrl(hits) ==
    LET found == SelectSeq(hits, LAMBDA m : m.ok)
    IN  IF found = <<>> THEN None ELSE Some(found[1].text)

\* url is the matched text, 'https://' prepended exactly when it has no scheme
SchemedOnce(matched, url) ==
    IF matched = None THEN url = None
    ELSE /\ url # None
         /\ url[1] = IF HasScheme(matched[1]) THEN matched[1]
                     ELSE "https://" \o matched[1]
         /\ HasScheme(url[1])
         /\ ~HasScheme(SubSeq(url[1], 8, Len(url[1])))
         /\ ~HasScheme(SubSeq(url[1], 9, Len(url[1])))

\* C28: the LinkedIn and GitHub URL extractors return either absent or a URL
\* with exactly one scheme prefix: 'https://' is prepended exactly when the
\* matched text has no scheme, and a match that already has one, in any
\* letter case, is returned without a second prefix.
UrlHasOneScheme ==
    /\ call.fn = "_extract_linkedin_url"
          => SchemedOnce(MatchedUrl([k \in 1..Len(linkedin_patterns) |->
                                       Search(linkedin_patterns[k], call.arg, FlagI)]),
                         call.ret.value)
    /\ call.fn = "_extract_github_url"
          => SchemedOnce(MatchedUrl([k \in 1..Len(github_patterns) |->
                                       Search(github_patterns[k], call.arg, FlagI)]),
                         call.ret.value)

\* an upper-case scheme is never given a second prefix
UppercaseSchemeKept ==
    (call.fn = "_extract_linkedin_url" /\ call.arg = "HTTPS://linkedin.com/in/x")
        => call.ret.value = Some("HTTPS://linkedin.com/in/x")

\* the region is one the filter keeps: its confidence is above 0.5
Confident(line) == line # None /\ line[1].confidence > ConfidenceThreshold

RECURSIVE ConfidentFrom(_, _)
\* the texts of the confident regions from the k-th on, in reading order,
\* each followed by one space
ConfidentFrom(lines, k) ==
    IF k > Len(lines) THEN ""
    ELSE (IF Confident(lines[k]) THEN lines[k][1].text \o " " ELSE "")
             \o ConfidentFrom(lines, k + 1)

\* joined is spaced without its last space
JoinedBySpaces(spaced, joined) ==
    IF spaced = "" THEN joined = "" ELSE spaced = joined \o " "

\* C29: when the primary OCR engine returns regions, the recognised text is
\* exactly the texts of the regions whose confidence is strictly greater than
\* 0.5 (one at exactly 0.5 is dropped), in the engine's reading order, joined
\* by single spaces; if every region is at or below the threshold the result
\* is the empty string and the legacy engine is not consulted.
ConfidentRegionsJoined ==
    (/\ call.fn = "_extract_text_with_ocr"
     /\ parser[1].ocr
     /\ ~call.arg.paddle.raises
     /\ call.arg.paddle.result # <<>>
     /\ call.arg.paddle.result[1] # <<>>)
        => /\ ~call.ret.raised
           /\ JoinedBySpaces(ConfidentFrom(call.arg.paddle.result[1], 1),
                             call.ret.value)
           /\ (\A k \in 1..Len(call.arg.paddle.result[1]) :
                  ~Confident(call.arg.paddle.result[1][k]))
                 => call.ret.value = ""
           /\ call.ret.calls = <<"PaddleOCR.ocr">>

RegionAtThresholdDropped ==
    /\ call.fn = "_extract_text_with_ocr"
    /\ parser[1].ocr
    /\ ~call.arg.paddle.raises
    /\ \E lines \in {call.arg.paddle.result[k] : k \in 1..Len(call.arg.paddle.result)} :
          \E k \in 1..Len(lines) :
             lines[k] # None /\ lines[k][1].confidence = ConfidenceThreshold
    /\ call.ret.value = "Jane Doe jane@example.com"

FaintPageReadAsEmpty ==
    /\ call.fn = "_extract_text_with_ocr"
    /\ parser[1].ocr
    /\ ~call.arg.paddle.raises
    /\ call.arg.paddle.result = << <<Some([text |-> "~~", confidence |-> 12])>> >>
    /\ call.arg.tess.text = "Jane Doe\njane@example.com\n"
    /\ call.ret.value = ""
    /\ call.ret.calls = <<"PaddleOCR.ocr">>

\* no run of whitespace, no character outside the whitelist, no whitespace
\* at either end
NormalForm(text) ==
    /\ \A i \in 1..(Len(text) - 1) :
          ~(Ch(text, i) \in SpaceChars /\ Ch(text, i + 1) \in SpaceChars)
    /\ \A i \in 1..Len(text) :
          Ch(text, i) \in WordChars \cup SpaceChars \cup
                          {"@", ".", ",", "(", ")", "-", "+", "/", ":", "#"}
    /\ text # "" => Ch(text, 1) \notin SpaceChars /\ Ch(text, Len(text)) \notin SpaceChars

\* C30: the output of _clean_text is normalised (no run of two or more
\* whitespace characters, no character outside the whitelist, no leading or
\* trailing whitespace), so cleaning is idempotent:
\* _clean_text(_clean_text(t)) = _clean_text(t), also where a stripped
\* character stands between two spaces.
CleanTextNormalised ==
    call.fn = "_clean_text"
        => /\ NormalForm(call.ret.value)
           /\ _clean_text(call.ret.value) = call.ret.value

\* cleaning a text that has no character outside the whitelist gives a
\* normalised text
WhitelistedTextNormalised ==
    (call.fn = "_clean_text" /\ ~Search(ProblemChar, call.arg, NoFlags).ok)
        => /\ NormalForm(call.ret.value)
           /\ _clean_text(call.ret.value) = call.ret.value

StrippedCharBetweenSpaces ==
    /\ call.fn = "_clean_text"
    /\ call.arg = "a ! b"
    /\ call.ret.value = "a   b"
    /\ _clean_text(call.ret.value) = "a b"

====
